---- MODULE Spec2Model ----
(***************************************************************************)
(* A model of the peer side of the everlasting BitTorrent client:          *)
(*   - framing.rs   FrameReader::read_frame / parse_frame                  *)
(*   - peer.rs      Handshake and Message framing, Connection::listen,     *)
(*                  Connection::handle, State                              *)
(*   - piece_map.rs PieceMap::have / bitfield / request_piece              *)
(*   - writer.rs    Writer::request_piece / download                       *)
(* Bytes are the integers 0..255, byte strings are sequences of them.      *)
(* Rust panics (unwrap on None, index out of range, todo!(), panic!())     *)
(* end the task that runs them and are modelled as the outcome "panic".    *)
(***************************************************************************)
EXTENDS Integers, Sequences, FiniteSets, TLC

VARIABLES
    \* ---- one reader task at byte level (framing.rs, peer.rs listen)
    sock,       \* bytes the remote has written and the reader has not read yet
    buffer,     \* FrameReader.buffer
    pc,         \* where Connection::listen stands
    ret,        \* what the last read_frame call returned, and how
    forwarded,  \* the messages listen has sent into the connection's channel
    hsFrame,    \* the handshake frame listen received, <<>> when none
    consumed,   \* number of bytes advanced out of the buffer so far
    \* ---- the connections, one reader task and one handler per peer (peer.rs)
    wire,       \* per peer: the frames its remote has written after the handshake
    rd,         \* per peer: state of the reader task (Connection::listen)
    held,       \* per peer: the frame listen holds while tx.send awaits
    chan,       \* per peer: the mpsc channel conn_tx -> Connection.rx
    hd,         \* per peer: state of the handler (Connection::handle)
    conn,       \* per peer: Connection.state and Connection.dht_port
    parsedLog,  \* per peer: the frames read_frame returned to listen, in order
    recvLog,    \* per peer: the messages rx.recv() returned to handle, in order
    prev,       \* per peer: conn as it was before the last message was handled
    \* ---- the piece map and the writer (piece_map.rs, writer.rs)
    inner,      \* PieceMap.inner: per piece, the Vec of its owners
    announced,  \* per peer: the pieces its have and bitfield messages named
    mapTask,    \* state of the task spawned by PieceMap::listen
    lock,       \* Writer.lock: the peers that have a write half registered
    writerTask, \* state of Writer::listen
    reqTask,    \* state of the caller of Writer::request_piece
    lastReq,    \* what the last PieceMap::request_piece call chose and returned
    outstanding,\* per peer: requests written to it (none is answered here)
    nMsgs,      \* number of messages PieceMap::listen has received
    nCalls,     \* number of calls of Writer::request_piece
    \* ---- the piece store (piece_manager.rs)
    pw,         \* the PiecesWrapper
    disk,       \* the contents of the files under ./downloads, in file order
    pwRet,      \* the last call on the store, its result, and the store before it
    \* ---- the UDP tracker exchange (router.rs, udp.rs)
    router,     \* Router.state, "gone" once next has returned Err or panicked
    call,       \* the arm of Router::next that is running, "none" between calls
    sess,       \* per tracker: the dispatch running for it inside that arm
    out,        \* the requests sent and not yet answered by their tracker
    net,        \* the datagrams waiting in the buffer of the shared socket
    now,        \* seconds since Router::next was first called
    \* ---- the HTTP tracker sessions (tracker.rs, tracker_session.rs)
    httpSess,   \* per session: where HttpSession::run stands, and what it got
    peerChan,   \* what the sessions have sent into peer_tx, in order
    joined,     \* state of HttpTracker::run
    \* ---- the way of a peer list into connections (peer.rs Router)
    peerRx,     \* the peer lists waiting in the peer channel
    connQ,      \* the (handshake future, peer) pairs Router::connect has sent
    attempts,   \* the endpoints Router::run has started a handshake for
    nLists,     \* number of peer lists the tracker sessions have sent
    \* ---- the block buffer of the writer (writer.rs)
    wbuf,       \* Buffer.inner: per piece its bytes
    dlTask,     \* state of Writer::download
    dlLast,     \* the last message download received, and the buffer before it
    \* ---- the encoders and decoders, applied to a drawn value
    codecIn,    \* the value drawn
    codecOut,   \* what the functions under study made of it
    \* ---- the bitfields of the peers (piece_manager.rs DataManager)
    bitfieldMap,\* DataManager.bitfield_map: per peer its stored bitfield
    rarePieces, \* DataManager.rare_pieces
    rareBuffer, \* the buffer of DataManager::listen's task
    dmTask,     \* state of the task spawned by DataManager::listen
    dmLast,     \* the last update received, and the map before it
    \* ---- shutdown of the torrent
    shutdown    \* TRUE once shutdown of the torrent has been signalled

frameVars == <<sock, buffer, pc, ret, forwarded, hsFrame, consumed>>

connVars == <<wire, rd, held, chan, hd, conn, parsedLog, recvLog, prev>>

mapVars == <<inner, announced, mapTask, lock, writerTask, reqTask, lastReq,
             outstanding, nMsgs, nCalls>>

storeVars == <<pw, disk, pwRet>>

udpVars == <<router, call, sess, out, net, now>>

httpVars == <<httpSess, peerChan, joined>>

poolVars == <<peerRx, connQ, attempts, nLists>>

dlVars == <<wbuf, dlTask, dlLast>>

codecVars == <<codecIn, codecOut>>

dmVars == <<bitfieldMap, rarePieces, rareBuffer, dmTask, dmLast>>

stopVars == <<shutdown>>

\* what the steps of one part leave alone: the variables of the other parts
notFrame ==
    <<connVars, mapVars, storeVars, udpVars,
      httpVars, poolVars, dlVars, codecVars, dmVars, stopVars>>

notConn ==
    <<frameVars, mapVars, storeVars, udpVars,
      httpVars, poolVars, dlVars, codecVars, dmVars, stopVars>>

notMap ==
    <<frameVars, connVars, storeVars, udpVars,
      httpVars, poolVars, dlVars, codecVars, dmVars, stopVars>>

notStore ==
    <<frameVars, connVars, mapVars, udpVars,
      httpVars, poolVars, dlVars, codecVars, dmVars, stopVars>>

notUdp ==
    <<frameVars, connVars, mapVars, storeVars,
      httpVars, poolVars, dlVars, codecVars, dmVars, stopVars>>

notHttp ==
    <<frameVars, connVars, mapVars, storeVars,
      udpVars, poolVars, dlVars, codecVars, dmVars, stopVars>>

vars ==
    <<frameVars, connVars, mapVars, storeVars,
      udpVars, httpVars, poolVars, dlVars, codecVars, dmVars, stopVars>>

notPool ==
    <<frameVars, connVars, mapVars, storeVars,
      udpVars, httpVars, dlVars, codecVars, dmVars, stopVars>>

notDl ==
    <<frameVars, connVars, mapVars, storeVars,
      udpVars, httpVars, poolVars, codecVars, dmVars, stopVars>>

notCodec ==
    <<frameVars, connVars, mapVars, storeVars,
      udpVars, httpVars, poolVars, dlVars, dmVars, stopVars>>

notDm ==
    <<frameVars, connVars, mapVars, storeVars,
      udpVars, httpVars, poolVars, dlVars, codecVars, stopVars>>

notStop ==
    <<frameVars, connVars, mapVars, storeVars,
      udpVars, httpVars, poolVars, dlVars, codecVars, dmVars>>

(***************************************************************************)
(* Bounds of the model.                                                    *)
(***************************************************************************)
\* number of frames the remote writes after its handshake (byte-level spec)
MaxFrames == 2

\* number of frames a remote writes to one connection
MaxWire == 3

\* number of frames each remote writes when two connections run side by side
MaxWirePeers == 2

\* capacity of a connection's channel: mpsc::channel(100) in peer.rs:135,
\* scaled down so that the remote can fill it within MaxWire frames
ChanCap == 1

\* number of pieces of the torrent (torrent.info.pieces.len())
NumPieces == 9

\* number of pieces the piece map is built for (real_len of PieceMap::new)
MapPieces == 4

\* number of messages PieceMap::listen receives
MaxMapMsgs == 3

\* number of calls of Writer::request_piece
MaxRequestCalls == 1

\* number of pieces of the torrent the piece store is built for
NumStorePieces == 2

\* piece_length of that torrent, in bytes
StorePieceLen == 2

\* number of files and length of a file in the layouts drawn
MaxFiles == 3

MaxFileLen == 3

(***************************************************************************)
(* Helpers on byte strings.                                                *)
(***************************************************************************)
Min(a, b) == IF a < b THEN a ELSE b

Take(s, n) == SubSeq(s, 1, Min(n, Len(s)))

Drop(s, n) == SubSeq(s, Min(n, Len(s)) + 1, Len(s))

Rep(b, n) == [i \in 1..n |-> b]

\* the sequences of at most n elements of S
SeqsUpTo(S, n) ==
    LET RECURSIVE Go(_)
        Go(k) == IF k = 0 THEN { <<>> }
                 ELSE LET shorter == Go(k - 1)
                      IN shorter \cup { Append(w, x) : w \in shorter, x \in S }
    IN Go(n)

\* u32::from_be_bytes / u16::from_be_bytes
FromBeBytes(s) ==
    LET RECURSIVE Go(_, _)
        Go(acc, i) == IF i > Len(s) THEN acc ELSE Go(acc * 256 + s[i], i + 1)
    IN Go(0, 1)

\* u32::to_be_bytes
U32ToBeBytes(n) ==
    << (n \div 16777216) % 256, (n \div 65536) % 256, (n \div 256) % 256, n % 256 >>

\* bit i (0 = least significant) of byte b
BitOf(b, i) == (b \div (2 ^ i)) % 2

\* a | b on bytes
ByteOr(a, b) ==
    LET RECURSIVE Go(_, _)
        Go(i, acc) ==
            IF i > 7 THEN acc
            ELSE Go(i + 1,
                    acc + (IF BitOf(a, i) = 1 \/ BitOf(b, i) = 1 THEN 2 ^ i ELSE 0))
    IN Go(0, 0)

(***************************************************************************)
(* The handshake frame: <1:pstrlen><19:pstr><8:reserved><20:hash><20:id>.  *)
(***************************************************************************)
HandshakeLen == 68

\* "BitTorrent protocol" in ASCII
Pstr == <<66, 105, 116, 84, 111, 114, 114, 101, 110, 116, 32,
          112, 114, 111, 116, 111, 99, 111, 108>>

\* torrent.info.value, the info-hash of the torrent the client asks for
InfoHash == Rep(170, 20)

\* a remote's handshake on the wire: reserved with the DHT bit, a hash, an id
HandshakeBytes(hash) ==
    <<19>> \o Pstr \o <<0, 0, 0, 0, 0, 0, 0, 1>> \o hash \o Rep(187, 20)

\* the handshake of a remote that serves the torrent
RemoteHandshake == HandshakeBytes(InfoHash)

\* the handshake of a remote that serves another torrent
ForeignHandshake == HandshakeBytes(Rep(204, 20))

\* impl ParseCheck for Handshake: check. The cursor position after a
\* successful check is 68.
HandshakeCheck(buf) ==
    IF Len(buf) >= HandshakeLen
    THEN [ok |-> TRUE, pos |-> HandshakeLen]
    ELSE [ok |-> FALSE, pos |-> Len(buf)]

\* impl ParseCheck for Handshake: parse
HandshakeParse(buf) ==
    LET rem == Take(buf, HandshakeLen) IN
    IF Len(rem) # HandshakeLen
    THEN [tag |-> "incomplete"]
    ELSE [tag |-> "ok",
          frame |-> [id |-> "Handshake",
                     reserved |-> SubSeq(rem, 21, 28),
                     hash |-> SubSeq(rem, 29, 48),
                     peer_id |-> SubSeq(rem, 49, 68)]]

(***************************************************************************)
(* Length-prefixed messages.                                               *)
(***************************************************************************)
\* a check that collects the payload with map_while, as parse does, and so
\* finds a payload that has not arrived yet incomplete
MessageCheckMapWhile(buf) ==
    IF Len(buf) < 4 \/ Len(buf) < 4 + FromBeBytes(Take(buf, 4))
    THEN [ok |-> FALSE, pos |-> Len(buf)]
    ELSE [ok |-> TRUE, pos |-> 4 + FromBeBytes(Take(buf, 4))]

\* a check whose cursor runs to the end of the buffer
MessageCheckToEnd(buf) ==
    IF Len(buf) < 4
    THEN [ok |-> FALSE, pos |-> Len(buf)]
    ELSE [ok |-> TRUE, pos |-> Len(buf)]

\* impl ParseCheck for Message: check. The payload bytes are collected with
\* map, not map_while: the vector always has n entries (None past the end of
\* the buffer), so the payload is never found incomplete, and the cursor
\* stops at the end of the buffer.
MessageCheck(buf) ==
    IF Len(buf) < 4
    THEN [ok |-> FALSE, pos |-> Len(buf)]
    ELSE [ok |-> TRUE, pos |-> Min(Len(buf), 4 + FromBeBytes(Take(buf, 4)))]

\* the bits of a byte, least significant first: (0..8).map(|i| (n >> i) & 1)
BitsLsbFirst(b) == [i \in 1..8 |-> BitOf(b, i - 1)]

\* flat_map of BitsLsbFirst over a byte string
ExpandBits(s) == [k \in 1..(8 * Len(s)) |-> BitOf(s[((k - 1) \div 8) + 1], (k - 1) % 8)]

\* the match on rem[0] of Message::parse (peer.rs), rem the n payload bytes
MessageOfPayload(rem) ==
    IF Len(rem) = 0 THEN [tag |-> "panic"]                 \* rem[0] out of range
    ELSE CASE rem[1] = 0 -> [tag |-> "ok", frame |-> [id |-> "Choke"]]
           [] rem[1] = 1 -> [tag |-> "ok", frame |-> [id |-> "Unchoke"]]
           [] rem[1] = 2 -> [tag |-> "ok", frame |-> [id |-> "Interested"]]
           [] rem[1] = 3 -> [tag |-> "ok", frame |-> [id |-> "Uninterested"]]
           [] rem[1] = 4 ->
                IF Len(rem) # 5 THEN [tag |-> "panic"]     \* try_into().unwrap()
                ELSE [tag |-> "ok",
                      frame |-> [id |-> "Have", idx |-> FromBeBytes(SubSeq(rem, 2, 5))]]
           [] rem[1] = 5 ->
                [tag |-> "ok", frame |-> [id |-> "Bitfield", v |-> ExpandBits(rem)]]
           [] rem[1] = 6 ->
                IF Len(rem) < 13 THEN [tag |-> "panic"]
                ELSE [tag |-> "ok",
                      frame |-> [id |-> "Request",
                                 index |-> FromBeBytes(SubSeq(rem, 2, 5)),
                                 begin |-> FromBeBytes(SubSeq(rem, 6, 9)),
                                 length |-> FromBeBytes(SubSeq(rem, 10, 13))]]
           [] rem[1] = 7 ->
                IF Len(rem) < 9 THEN [tag |-> "panic"]
                ELSE [tag |-> "ok",
                      frame |-> [id |-> "Piece",
                                 index |-> FromBeBytes(SubSeq(rem, 2, 5)),
                                 begin |-> FromBeBytes(SubSeq(rem, 6, 9)),
                                 block |-> rem]]
           [] rem[1] = 8 ->
                IF Len(rem) < 13 THEN [tag |-> "panic"]
                ELSE [tag |-> "ok",
                      frame |-> [id |-> "Cancel",
                                 index |-> FromBeBytes(SubSeq(rem, 2, 5)),
                                 begin |-> FromBeBytes(SubSeq(rem, 6, 9)),
                                 length |-> FromBeBytes(SubSeq(rem, 10, 13))]]
           [] rem[1] = 9 ->
                IF Len(rem) < 3 THEN [tag |-> "panic"]
                ELSE [tag |-> "ok",
                      frame |-> [id |-> "Port", port |-> FromBeBytes(SubSeq(rem, 2, 3))]]
           [] rem[1] = 20 -> [tag |-> "ok", frame |-> [id |-> "Extended"]]
           [] OTHER -> [tag |-> "panic"]                   \* _ => panic!()

\* impl ParseCheck for Message: parse (the payload is collected with map_while)
MessageParse(buf) ==
    IF Len(buf) < 4 THEN [tag |-> "incomplete"]
    ELSE LET n == FromBeBytes(Take(buf, 4))
             rem == Take(Drop(buf, 4), n)
         IN IF Len(rem) # n THEN [tag |-> "incomplete"] ELSE MessageOfPayload(rem)

(***************************************************************************)
(* FrameReader (framing.rs).                                               *)
(***************************************************************************)
\* FrameReader::new: BytesMut::with_capacity
BufferCapacity == 1024

Check(kind, buf) == IF kind = "Handshake" THEN HandshakeCheck(buf) ELSE MessageCheck(buf)

Parse(kind, buf) == IF kind = "Handshake" THEN HandshakeParse(buf) ELSE MessageParse(buf)

\* FrameReader::parse_frame: "none" (read more), "some" with the frame and
\* the buffer advanced by the cursor position of check, "err" when parse
\* fails after a successful check (the ? on T::parse), or "panic".
ParseFrame(kind, buf) ==
    LET c == Check(kind, buf) IN
    IF ~c.ok THEN [tag |-> "none", buf |-> buf]
    ELSE LET p == Parse(kind, buf) IN
         CASE p.tag = "ok" -> [tag |-> "some", frame |-> p.frame, buf |-> Drop(buf, c.pos)]
           [] p.tag = "incomplete" -> [tag |-> "err", buf |-> buf]
           [] OTHER -> [tag |-> "panic", buf |-> buf]

\* a reader that takes every end of stream for a clean one
EofResultAlwaysNone(buf) == "none"

\* read_frame after read_buf returned 0
EofResult(buf) == IF buf = <<>> THEN "none" ELSE "BrokenPipe"

(***************************************************************************)
(* Connection::listen at byte level (peer.rs 173-195): one FrameReader for *)
(* the handshake, then one for the messages over the same socket and       *)
(* buffer.  read_frame is a loop of parse_frame and an awaited socket      *)
(* read; each is one step.                                                 *)
(***************************************************************************)
\* what the remote may write after (or instead of) its handshake
WireFrames ==
    { <<0, 0, 0, 1, 0>>,                    \* choke
      <<0, 0, 0, 5, 4, 0, 0, 0, 7>>,        \* have(7)
      <<0, 0, 0, 2, 5, 160>>,               \* bitfield 10100000
      <<0, 0, 0, 0>>,                       \* keep-alive
      <<0, 16, 0, 1, 5, 255>>,              \* the start of a frame of 1 MiB + 1
      <<0, 0, 0>>,                          \* a length prefix cut short
      <<0, 0, 0, 5, 4, 0>> }                \* have cut short in its payload

\* a complete handshake for this torrent or another, a truncated one, or none
WirePrefixes == { RemoteHandshake, ForeignHandshake, Take(RemoteHandshake, 20), <<>> }

Concat(fs) ==
    LET RECURSIVE Go(_, _)
        Go(i, acc) == IF i > Len(fs) THEN acc ELSE Go(i + 1, acc \o fs[i])
    IN Go(1, <<>>)

Streams ==
    { p \o Concat(fs) : p \in WirePrefixes, fs \in SeqsUpTo(WireFrames, MaxFrames) }

ParsePc(kind) == IF kind = "Handshake" THEN "hs_parse" ELSE "msg_parse"

ReadPc(kind) == IF kind = "Handshake" THEN "hs_read" ELSE "msg_read"

\* a listen that drops the ? on the handshake read
AfterHandshakeIgnoringError(tag) == "msg_parse"

\* listen after the handshake reader returned: Some and None both go on to
\* the message reader (if let Some(..) = ..?), an error ends listen
AfterHandshake(tag) == IF tag \in {"some", "none"} THEN "msg_parse" ELSE "err"

\* listen after the message reader returned (while let Some(..) = ..?)
AfterMessage(tag) ==
    CASE tag = "some" -> "msg_parse"
      [] tag = "none" -> "done"
      [] OTHER -> "err"

After(kind, tag) == IF kind = "Handshake" THEN AfterHandshake(tag) ELSE AfterMessage(tag)

\* no reader task at byte level
IdleFrame ==
    /\ sock = <<>>
    /\ buffer = <<>>
    /\ pc = "idle"
    /\ ret = [tag |-> "pending", eof |-> FALSE, pre |-> <<>>, kind |-> "Handshake"]
    /\ forwarded = <<>>
    /\ hsFrame = <<>>
    /\ consumed = 0

InitFrame ==
    /\ sock \in Streams
    /\ buffer = <<>>
    /\ pc = "hs_parse"
    /\ ret = [tag |-> "pending", eof |-> FALSE, pre |-> <<>>, kind |-> "Handshake"]
    /\ forwarded = <<>>
    /\ hsFrame = <<>>
    /\ consumed = 0

\* read_frame line 30: parse_frame finds no complete frame, go on to read
ParseIncomplete(kind) ==
    /\ pc = ParsePc(kind)
    /\ ParseFrame(kind, buffer).tag = "none"
    /\ pc' = ReadPc(kind)
    /\ UNCHANGED <<sock, buffer, ret, forwarded, hsFrame, consumed>>
    /\ UNCHANGED notFrame

\* read_frame lines 30-31: parse_frame returns a frame; listen takes it
ParseSome(kind) ==
    /\ pc = ParsePc(kind)
    /\ LET r == ParseFrame(kind, buffer) IN
       /\ r.tag = "some"
       /\ buffer' = r.buf
       /\ consumed' = consumed + (Len(buffer) - Len(r.buf))
       /\ ret' = [tag |-> "some", eof |-> FALSE, pre |-> buffer, kind |-> kind]
       /\ pc' = After(kind, "some")
       /\ IF kind = "Handshake"
          THEN hsFrame' = <<r.frame>> /\ forwarded' = forwarded
          ELSE forwarded' = Append(forwarded, r.frame) /\ hsFrame' = hsFrame
    /\ UNCHANGED sock
    /\ UNCHANGED notFrame

\* read_frame line 30: parse_frame fails (T::parse after a successful check)
ParseError(kind) ==
    /\ pc = ParsePc(kind)
    /\ ParseFrame(kind, buffer).tag = "err"
    /\ ret' = [tag |-> "Incomplete", eof |-> FALSE, pre |-> buffer, kind |-> kind]
    /\ pc' = After(kind, "err")
    /\ UNCHANGED <<sock, buffer, forwarded, hsFrame, consumed>>
    /\ UNCHANGED notFrame

\* T::parse panics: the reader task dies
ParsePanic(kind) ==
    /\ pc = ParsePc(kind)
    /\ ParseFrame(kind, buffer).tag = "panic"
    /\ ret' = [tag |-> "panic", eof |-> FALSE, pre |-> buffer, kind |-> kind]
    /\ pc' = "panic"
    /\ UNCHANGED <<sock, buffer, forwarded, hsFrame, consumed>>
    /\ UNCHANGED notFrame

\* read_frame line 34: read_buf appends k >= 1 bytes, however the stream was
\* split into segments, and no more than the buffer has room for
SocketRead(kind) ==
    /\ pc = ReadPc(kind)
    /\ \E k \in 1..Min(Len(sock), BufferCapacity - Len(buffer)) :
          /\ buffer' = buffer \o Take(sock, k)
          /\ sock' = Drop(sock, k)
    /\ pc' = ParsePc(kind)
    /\ UNCHANGED <<ret, forwarded, hsFrame, consumed>>
    /\ UNCHANGED notFrame

\* read_frame lines 34-40: read_buf returns 0, the remote closed the stream
SocketEof(kind) ==
    /\ pc = ReadPc(kind)
    /\ sock = <<>>
    /\ LET tag == EofResult(buffer) IN
       /\ ret' = [tag |-> tag, eof |-> TRUE, pre |-> buffer, kind |-> kind]
       /\ pc' = After(kind, tag)
    /\ UNCHANGED <<sock, buffer, forwarded, hsFrame, consumed>>
    /\ UNCHANGED notFrame

NextFrame ==
    \E kind \in {"Handshake", "Message"} :
        \/ ParseIncomplete(kind)
        \/ ParseSome(kind)
        \/ ParseError(kind)
        \/ ParsePanic(kind)
        \/ SocketRead(kind)
        \/ SocketEof(kind)

(***************************************************************************)
(* Frames written back to back (peer.rs Connection::listen over            *)
(* framing.rs): the remote writes its handshake and then whole frames, one *)
(* after the other; the reads cut the stream anywhere.                     *)
(***************************************************************************)
\* the number of frames the remote writes
MaxBackToBack == 3

\* choke, unchoke, have(7) and a keep-alive
BackToBackFrames ==
    { <<0, 0, 0, 1, 0>>,
      <<0, 0, 0, 1, 1>>,
      <<0, 0, 0, 5, 4, 0, 0, 0, 7>>,
      <<0, 0, 0, 0>> }

BackToBackStreams ==
    { RemoteHandshake \o Concat(fs) : fs \in SeqsUpTo(BackToBackFrames, MaxBackToBack) }

InitBackToBack ==
    /\ sock \in BackToBackStreams
    /\ buffer = <<>>
    /\ pc = "hs_parse"
    /\ ret = [tag |-> "pending", eof |-> FALSE, pre |-> <<>>, kind |-> "Handshake"]
    /\ forwarded = <<>>
    /\ hsFrame = <<>>
    /\ consumed = 0

(***************************************************************************)
(* The connections (peer.rs).  Router::handshake connects, spawns           *)
(* Connection::listen with the sending half of a bounded channel, writes    *)
(* the client's handshake and returns the Connection that owns the          *)
(* receiving half; Router::run then runs Connection::handle on it.  Here    *)
(* the reader is taken after the handshake and one read_frame is one step:  *)
(* the frame is parsed with MessageParse from the bytes the remote wrote.   *)
(***************************************************************************)
PeerIds == {"A", "B"}

\* State::new(pieces) and Connection::new: dht_port None is <<>>
NewConn(pieces) ==
    [choked |-> TRUE,
     interested |-> FALSE,
     peer_choked |-> TRUE,
     peer_interested |-> FALSE,
     remote_bitfield |-> Rep(0, (pieces \div 8) + 1),
     dht_port |-> <<>>]

\* a frame on the wire: <length prefix><id><payload>
WireFrame(id, payload) == U32ToBeBytes(1 + Len(payload)) \o <<id>> \o payload

\* the frames a remote writes to the connection under study
ConnFrames ==
    { WireFrame(0, <<>>),                                  \* choke
      WireFrame(1, <<>>),                                  \* unchoke
      WireFrame(2, <<>>),                                  \* interested
      WireFrame(3, <<>>),                                  \* not interested
      WireFrame(4, U32ToBeBytes(3)),                       \* have(3)
      WireFrame(4, U32ToBeBytes(8)),                       \* have(8)
      WireFrame(5, <<160, 128>>),                          \* bitfield 10100000 1
      WireFrame(9, <<26, 225>>),                           \* port 6881
      WireFrame(7, U32ToBeBytes(0) \o U32ToBeBytes(0) \o <<42>>) }  \* piece

\* the frames each remote writes when two connections run side by side
PeersFrames ==
    { WireFrame(0, <<>>),                                  \* choke
      WireFrame(7, U32ToBeBytes(0) \o U32ToBeBytes(0) \o <<42>>) }  \* piece


\* Connection::handle, one message (the match of peer.rs 201-241)
HandleMessage(c, m) ==
    CASE m.id = "Choke" -> [tag |-> "ok", conn |-> [c EXCEPT !.choked = TRUE]]
      [] m.id = "Unchoke" -> [tag |-> "ok", conn |-> [c EXCEPT !.choked = FALSE]]
      [] m.id = "Interested" -> [tag |-> "ok", conn |-> [c EXCEPT !.interested = TRUE]]
      [] m.id = "Uninterested" -> [tag |-> "ok", conn |-> [c EXCEPT !.interested = FALSE]]
      [] m.id = "Have" ->
            \* remote_bitfield[idx / 8] panics out of range; *n |= (idx % 8) as u8
            IF (m.idx \div 8) + 1 > Len(c.remote_bitfield)
            THEN [tag |-> "panic"]
            ELSE [tag |-> "ok",
                  conn |-> [c EXCEPT !.remote_bitfield[(m.idx \div 8) + 1] =
                                         ByteOr(@, m.idx % 8)]]
      [] m.id = "Bitfield" -> [tag |-> "ok", conn |-> [c EXCEPT !.remote_bitfield = m.v]]
      [] m.id = "Port" -> [tag |-> "ok", conn |-> [c EXCEPT !.dht_port = <<m.port>>]]
      [] OTHER -> [tag |-> "panic"]          \* Request, Piece, Cancel, _: todo!()

\* a sender that drops the message when the channel is full (try_send)
ChanSendOrDrop(q, m) ==
    IF Len(q) < ChanCap THEN [done |-> TRUE, q |-> Append(q, m)]
    ELSE [done |-> TRUE, q |-> q]

\* mpsc Sender::send(m).await: the message joins the queue at its end once
\* the channel has room; until then the sender waits
ChanSend(q, m) ==
    IF Len(q) < ChanCap THEN [done |-> TRUE, q |-> Append(q, m)]
    ELSE [done |-> FALSE, q |-> q]

\* no connection
IdleConn ==
    /\ wire = [p \in PeerIds |-> <<>>]
    /\ rd = [p \in PeerIds |-> "idle"]
    /\ held = [p \in PeerIds |-> <<>>]
    /\ chan = [p \in PeerIds |-> <<>>]
    /\ hd = [p \in PeerIds |-> "idle"]
    /\ conn = [p \in PeerIds |-> NewConn(NumPieces)]
    /\ parsedLog = [p \in PeerIds |-> <<>>]
    /\ recvLog = [p \in PeerIds |-> <<>>]
    /\ prev = [p \in PeerIds |-> NewConn(NumPieces)]

\* Router::handshake after tokio::spawn(Connection::listen(r, conn_tx)), for
\* the peers of `active`; wires(p) is what p's remote may write
InitConn(active, wires) ==
    /\ wire \in [PeerIds -> wires]
    /\ \A p \in PeerIds \ active : wire[p] = <<>>
    /\ rd = [p \in PeerIds |-> IF p \in active THEN "run" ELSE "idle"]
    /\ held = [p \in PeerIds |-> <<>>]
    /\ chan = [p \in PeerIds |-> <<>>]
    /\ hd = [p \in PeerIds |-> IF p \in active THEN "connecting" ELSE "idle"]
    /\ conn = [p \in PeerIds |-> NewConn(NumPieces)]
    /\ parsedLog = [p \in PeerIds |-> <<>>]
    /\ recvLog = [p \in PeerIds |-> <<>>]
    /\ prev = [p \in PeerIds |-> NewConn(NumPieces)]

\* Router::handshake lines 138-141 and Router::run lines 91-95: the client's
\* handshake is written, the Connection is built and handle starts
StartHandle(p) ==
    /\ hd[p] = "connecting"
    /\ hd' = [hd EXCEPT ![p] = "run"]
    /\ UNCHANGED <<wire, rd, held, chan, conn, parsedLog, recvLog, prev>>
    /\ UNCHANGED notConn

\* Router::handshake line 138: write_all fails, conn_rx is dropped with the
\* messages it holds and no Connection is built
HandshakeWriteFails(p) ==
    /\ hd[p] = "connecting"
    /\ hd' = [hd EXCEPT ![p] = "dropped"]
    /\ chan' = [chan EXCEPT ![p] = <<>>]
    /\ UNCHANGED <<wire, rd, held, conn, parsedLog, recvLog, prev>>
    /\ UNCHANGED notConn

\* listen line 187: read_frame returns the next frame of the stream, or
\* Message::parse panics on it
ListenFrame(p) ==
    /\ rd[p] = "run"
    /\ held[p] = <<>>
    /\ wire[p] # <<>>
    /\ LET r == ParseFrame("Message", Head(wire[p])) IN
       IF r.tag = "some"
       THEN /\ held' = [held EXCEPT ![p] = <<r.frame>>]
            /\ parsedLog' = [parsedLog EXCEPT ![p] = Append(@, r.frame)]
            /\ wire' = [wire EXCEPT ![p] = Tail(@)]
            /\ rd' = rd
       ELSE /\ rd' = [rd EXCEPT ![p] = IF r.tag = "panic" THEN "panic" ELSE "err"]
            /\ UNCHANGED <<held, parsedLog, wire>>
    /\ UNCHANGED <<chan, hd, conn, recvLog, prev>>
    /\ UNCHANGED notConn

\* listen line 187: read_frame fails on a frame whose bytes arrive in two
\* reads, the first ending inside the payload (ParseFrame on the prefix)
ListenSplitFrame(p) ==
    /\ rd[p] = "run"
    /\ held[p] = <<>>
    /\ wire[p] # <<>>
    /\ \E k \in 4..(Len(Head(wire[p])) - 1) :
          ParseFrame("Message", Take(Head(wire[p]), k)).tag = "err"
    /\ rd' = [rd EXCEPT ![p] = "err"]
    /\ UNCHANGED <<wire, held, chan, hd, conn, parsedLog, recvLog, prev>>
    /\ UNCHANGED notConn

\* listen line 187: read_frame returns None at the end of the stream and
\* listen returns, dropping tx
ListenEof(p) ==
    /\ rd[p] = "run"
    /\ held[p] = <<>>
    /\ wire[p] = <<>>
    /\ rd' = [rd EXCEPT ![p] = "done"]
    /\ UNCHANGED <<wire, held, chan, hd, conn, parsedLog, recvLog, prev>>
    /\ UNCHANGED notConn

\* listen line 191: tx.send(frame).await completes once the channel has room
ListenSend(p) ==
    /\ rd[p] = "run"
    /\ held[p] # <<>>
    /\ hd[p] \in {"connecting", "run"}
    /\ LET r == ChanSend(chan[p], held[p][1]) IN
       /\ r.done
       /\ chan' = [chan EXCEPT ![p] = r.q]
    /\ held' = [held EXCEPT ![p] = <<>>]
    /\ UNCHANGED <<wire, rd, hd, conn, parsedLog, recvLog, prev>>
    /\ UNCHANGED notConn

\* listen line 191: the receiver is gone, tx.send fails and listen returns
ListenSendClosed(p) ==
    /\ rd[p] = "run"
    /\ held[p] # <<>>
    /\ hd[p] \in {"dropped", "done", "panic"}
    /\ rd' = [rd EXCEPT ![p] = "err"]
    /\ held' = [held EXCEPT ![p] = <<>>]
    /\ UNCHANGED <<wire, chan, hd, conn, parsedLog, recvLog, prev>>
    /\ UNCHANGED notConn

\* handle lines 200-241: rx.recv() returns the oldest message and the match
\* runs on it; a panic ends the handler and drops rx
Handle(p) ==
    /\ hd[p] = "run"
    /\ chan[p] # <<>>
    /\ LET m == Head(chan[p])
           r == HandleMessage(conn[p], m)
       IN /\ recvLog' = [recvLog EXCEPT ![p] = Append(@, m)]
          /\ prev' = [prev EXCEPT ![p] = conn[p]]
          /\ IF r.tag = "ok"
             THEN /\ conn' = [conn EXCEPT ![p] = r.conn]
                  /\ chan' = [chan EXCEPT ![p] = Tail(@)]
                  /\ hd' = hd
             ELSE /\ conn' = conn
                  /\ chan' = [chan EXCEPT ![p] = <<>>]
                  /\ hd' = [hd EXCEPT ![p] = "panic"]
    /\ UNCHANGED <<wire, rd, held, parsedLog>>
    /\ UNCHANGED notConn

\* a handler whose receiver never reports the closed channel
HandleNeverClosed(p) ==
    /\ hd[p] = "run"
    /\ chan[p] = <<>>
    /\ rd[p] \in {"done", "err", "panic"}
    /\ UNCHANGED vars

\* handle line 200: rx.recv() returns None, every sender is gone and the
\* channel is empty
HandleClosed(p) ==
    /\ hd[p] = "run"
    /\ chan[p] = <<>>
    /\ rd[p] \in {"done", "err", "panic"}
    /\ hd' = [hd EXCEPT ![p] = "done"]
    /\ UNCHANGED <<wire, rd, held, chan, conn, parsedLog, recvLog, prev>>
    /\ UNCHANGED notConn

NextConn(active) ==
    \E p \in active :
        \/ StartHandle(p)
        \/ HandshakeWriteFails(p)
        \/ ListenFrame(p)
        \/ ListenSplitFrame(p)
        \/ ListenEof(p)
        \/ ListenSend(p)
        \/ ListenSendClosed(p)
        \/ Handle(p)
        \/ HandleClosed(p)

(***************************************************************************)
(* One connection from the dial to its end (peer.rs Router::run,            *)
(* Router::handshake, Connection::listen).  The first element of the wire   *)
(* is what the remote writes as its handshake; the frames follow.           *)
(***************************************************************************)
\* the number of frames a remote writes after its handshake
MaxCloseFrames == 2

\* what a remote writes first: a handshake, a handshake cut short by the end
\* of the stream, or nothing before the stream ends
HandshakeInputs == { RemoteHandshake, Take(RemoteHandshake, 20), <<>> }

\* the frames a remote writes after its handshake: choke, have(3), a piece
\* and a frame with the message id 10
CloseFrames ==
    { WireFrame(0, <<>>),
      WireFrame(4, U32ToBeBytes(3)),
      WireFrame(7, U32ToBeBytes(0) \o U32ToBeBytes(0) \o <<42>>),
      WireFrame(10, <<>>) }

\* a stream that ends inside or before the handshake has no frames
CloseWires ==
    { <<h>> \o fs : h \in {RemoteHandshake}, fs \in SeqsUpTo(CloseFrames, MaxCloseFrames) }
    \cup { <<h>> : h \in HandshakeInputs }

\* Router::run has taken the pair (handshake future, peer) of p and spawned
\* the task that awaits the future
InitClose(active) ==
    /\ wire \in [PeerIds -> CloseWires \cup {<<>>}]
    /\ \A p \in PeerIds : (wire[p] = <<>>) <=> (p \notin active)
    /\ rd = [p \in PeerIds |-> "idle"]
    /\ held = [p \in PeerIds |-> <<>>]
    /\ chan = [p \in PeerIds |-> <<>>]
    /\ hd = [p \in PeerIds |-> IF p \in active THEN "dialing" ELSE "idle"]
    /\ conn = [p \in PeerIds |-> NewConn(NumPieces)]
    /\ parsedLog = [p \in PeerIds |-> <<>>]
    /\ recvLog = [p \in PeerIds |-> <<>>]
    /\ prev = [p \in PeerIds |-> NewConn(NumPieces)]

\* Router::handshake lines 132-136: TcpStream::connect completed within the
\* timeout; the stream is split and Connection::listen is spawned
ConnectOk(p) ==
    /\ hd[p] = "dialing"
    /\ hd' = [hd EXCEPT ![p] = "connecting"]
    /\ rd' = [rd EXCEPT ![p] = "hs"]
    /\ UNCHANGED <<wire, held, chan, conn, parsedLog, recvLog, prev>>
    /\ UNCHANGED notConn

\* Router::handshake line 132: the timeout of 3 s elapsed or connect failed;
\* the ?? returns the error, no listener is spawned and Router::run's task
\* ends at `if let Ok(..)`
ConnectFails(p) ==
    /\ hd[p] = "dialing"
    /\ hd' = [hd EXCEPT ![p] = "dropped"]
    /\ UNCHANGED <<wire, rd, held, chan, conn, parsedLog, recvLog, prev>>
    /\ UNCHANGED notConn

\* listen lines 174-175: peer_addr or File::create fails and listen returns
ListenFileFails(p) ==
    /\ rd[p] = "hs"
    /\ rd' = [rd EXCEPT ![p] = "err"]
    /\ UNCHANGED <<wire, held, chan, hd, conn, parsedLog, recvLog, prev>>
    /\ UNCHANGED notConn

\* listen lines 177-186: the handshake reader returns.  What the remote wrote
\* first is a whole handshake, or the stream ended before one was complete
ListenHandshake(p) ==
    /\ rd[p] = "hs"
    /\ LET h == Head(wire[p])
           r == ParseFrame("Handshake", h)
           tag == IF r.tag = "none" THEN EofResult(h) ELSE r.tag
       IN IF AfterHandshake(tag) = "err"
          THEN /\ rd' = [rd EXCEPT ![p] = "err"]
               /\ wire' = wire
          ELSE /\ rd' = [rd EXCEPT ![p] = "run"]
               /\ wire' = [wire EXCEPT ![p] = Tail(@)]
    /\ UNCHANGED <<held, chan, hd, conn, parsedLog, recvLog, prev>>
    /\ UNCHANGED notConn

NextClose ==
    \E p \in {"A"} :
        \/ ConnectOk(p)
        \/ ConnectFails(p)
        \/ ListenFileFails(p)
        \/ ListenHandshake(p)
        \/ StartHandle(p)
        \/ HandshakeWriteFails(p)
        \/ ListenFrame(p)
        \/ ListenSplitFrame(p)
        \/ ListenEof(p)
        \/ ListenSend(p)
        \/ ListenSendClosed(p)
        \/ Handle(p)
        \/ HandleClosed(p)

\* the tasks of a connection are scheduled: a task that can take its next
\* step takes it
FairClose ==
    \A p \in {"A"} :
        /\ WF_vars(StartHandle(p) \/ HandshakeWriteFails(p))
        /\ WF_vars(Handle(p))
        /\ WF_vars(HandleClosed(p))

(***************************************************************************)
(* The piece map and the writer (piece_map.rs, writer.rs).  PieceMap keeps  *)
(* for every piece the Vec of the peers that own it; the task spawned by    *)
(* PieceMap::listen feeds it the have and bitfield messages of the peers,   *)
(* and Writer::request_piece asks it for requests and writes them to the    *)
(* write halves registered by Writer::listen.  A u64 word is the tuple of   *)
(* its eight big-endian bytes.                                              *)
(***************************************************************************)
MapPeers == {"A", "B", "C"}

\* crate::BLOCK_SIZE: 16 KiB
BLOCK_SIZE == 16384

\* blocks of PieceMap::request_piece: 2usize.pow(20) / *BLOCK_SIZE
Blocks == (2 ^ 20) \div BLOCK_SIZE

\* the word whose first big-endian byte is b and whose other bytes are zero
Word(b) == <<b, 0, 0, 0, 0, 0, 0, 0>>

\* the bitfields peers send: 1110 0111, 1100 0011, and an empty one
MapBitfields == { <<Word(231)>>, <<Word(195)>>, <<>> }

\* the messages that reach PieceMap::listen; have(MapPieces) is out of range
MapMessages ==
    { [id |-> "have", i |-> i] : i \in 0..MapPieces }
    \cup { [id |-> "bitfield", v |-> v] : v \in MapBitfields }
    \cup { [id |-> "choke"] }

\* BitField::to_boolean: the eight bits of a byte, lowest bit first
ToBoolean(x) == [i \in 1..8 |-> BitOf(x, i - 1) = 1]

\* BitField::new: the bits of the words' bytes, cut to real_len; the slice
\* bitfield[..real_len] panics when the words hold fewer bits
BitFieldNew(v, real_len) ==
    LET bytes == Concat(v)
        nbits == 8 * Len(bytes)
    IN IF real_len > nbits THEN [tag |-> "panic"]
       ELSE [tag |-> "ok",
             bits |-> [k \in 1..real_len |->
                         ToBoolean(bytes[((k - 1) \div 8) + 1])[((k - 1) % 8) + 1]]]

\* PieceMap::new: real_len empty owner lists
PieceMapNew(real_len) == [k \in 1..real_len |-> <<>>]

\* PieceMap::have: inner[i].push(owner)
PieceMapHave(m, i, owner) ==
    IF i >= Len(m) THEN [tag |-> "panic"]
    ELSE [tag |-> "ok", inner |-> [m EXCEPT ![i + 1] = Append(@, owner)]]

\* PieceMap::bitfield: push the owner on every piece whose bit is set
PieceMapBitfield(m, v, owner) ==
    LET bf == BitFieldNew(v, Len(m))
    IN IF bf.tag = "panic" THEN [tag |-> "panic"]
       ELSE [tag |-> "ok",
             inner |-> [k \in 1..Len(m) |->
                          IF bf.bits[k] THEN Append(m[k], owner) ELSE m[k]]]

\* the match of PieceMap::listen
PieceMapListen(m, msg, owner) ==
    CASE msg.id = "have" -> PieceMapHave(m, msg.i, owner)
      [] msg.id = "bitfield" -> PieceMapBitfield(m, msg.v, owner)
      [] OTHER -> [tag |-> "panic"]

\* the pieces a bitfield names on the wire: piece i is bit 7 - i % 8 of byte
\* i / 8, the bytes being the big-endian bytes of the words (pwp.rs to_request)
WirePieces(v, n) ==
    LET bytes == Concat(v)
    IN { i \in 0..(n - 1) :
           /\ i \div 8 < Len(bytes)
           /\ BitOf(bytes[(i \div 8) + 1], 7 - (i % 8)) = 1 }

\* the pieces a peer has named once msg is added to what it named before
Announce(a, msg) ==
    CASE msg.id = "have" -> IF msg.i < MapPieces THEN a \cup {msg.i} ELSE a
      [] msg.id = "bitfield" -> WirePieces(msg.v, MapPieces)
      [] OTHER -> a

\* the pieces the loop of PieceMap::request_piece can break with
Candidates(m) == { i \in 0..(Len(m) - 1) : m[i + 1] /= <<>> /\ Len(m[i + 1]) <= 3 }

\* the vector PieceMap::request_piece returns for the owners of the piece
\* it chose: peers.iter().cycle().take(blocks).enumerate()
Requests(peers) ==
    [k \in 1..Blocks |->
        [peer |-> peers[((k - 1) % Len(peers)) + 1],
         index |-> k - 1,
         begin |-> (k - 1) * BLOCK_SIZE,
         length |-> BLOCK_SIZE]]

\* the loop of Writer::request_piece: the number of requests written before
\* lock.get_mut(&peer).unwrap() meets a peer without a write half
Written(v, registered) ==
    LET missing == { k \in 1..Len(v) : v[k].peer \notin registered }
    IN IF missing = {} THEN Len(v)
       ELSE (CHOOSE k \in missing : \A j \in missing : k <= j) - 1

IdleMap ==
    /\ inner = PieceMapNew(MapPieces)
    /\ announced = [p \in MapPeers |-> {}]
    /\ mapTask = "off"
    /\ lock = {}
    /\ writerTask = "off"
    /\ reqTask = "off"
    /\ lastReq = [tag |-> "none"]
    /\ outstanding = [p \in MapPeers |-> 0]
    /\ nMsgs = 0
    /\ nCalls = 0

InitMap ==
    /\ inner = PieceMapNew(MapPieces)
    /\ announced = [p \in MapPeers |-> {}]
    /\ mapTask = "run"
    /\ lock = {}
    /\ writerTask = "run"
    /\ reqTask = "idle"
    /\ lastReq = [tag |-> "none"]
    /\ outstanding = [p \in MapPeers |-> 0]
    /\ nMsgs = 0
    /\ nCalls = 0

\* PieceMap::listen receives a message of peer p; the write lock of the map
\* is not granted while request_piece holds the read lock in its loop
MapListen(p, msg) ==
    /\ mapTask = "run"
    /\ reqTask /= "spin"
    /\ nMsgs < MaxMapMsgs
    /\ nMsgs' = nMsgs + 1
    /\ announced' = [announced EXCEPT ![p] = Announce(@, msg)]
    /\ LET r == PieceMapListen(inner, msg, p)
       IN IF r.tag = "ok"
          THEN inner' = r.inner /\ mapTask' = "run"
          ELSE inner' = inner /\ mapTask' = "panic"
    /\ UNCHANGED <<lock, writerTask, reqTask, lastReq, outstanding, nCalls>>
    /\ UNCHANGED notMap

\* Writer::listen receives the write half of peer p
WriterListen(p) ==
    /\ writerTask = "run"
    /\ reqTask /= "spin"
    /\ IF p \in lock
       THEN lock' = lock /\ writerTask' = "panic"
       ELSE lock' = lock \cup {p} /\ writerTask' = "run"
    /\ UNCHANGED <<inner, announced, mapTask, reqTask, lastReq, outstanding,
                   nMsgs, nCalls>>
    /\ UNCHANGED notMap

\* Writer::request_piece when the loop of PieceMap::request_piece breaks:
\* the random index it breaks with is any of the candidates
RequestPiece ==
    /\ reqTask = "idle"
    /\ nCalls < MaxRequestCalls
    /\ \E i \in Candidates(inner) :
         LET v == Requests(inner[i + 1])
             n == Written(v, lock)
         IN /\ lastReq' = [tag |-> "some", piece |-> i, map |-> inner, v |-> v]
            /\ outstanding' =
                 [p \in MapPeers |->
                    outstanding[p] + Cardinality({ k \in 1..n : v[k].peer = p })]
            /\ reqTask' = IF n < Len(v) THEN "panic" ELSE "idle"
    /\ nCalls' = nCalls + 1
    /\ UNCHANGED <<inner, announced, mapTask, lock, writerTask, nMsgs>>
    /\ UNCHANGED notMap

\* Writer::request_piece when no piece has between one and three owners:
\* the loop never breaks and both locks stay held
RequestPieceSpin ==
    /\ reqTask = "idle"
    /\ nCalls < MaxRequestCalls
    /\ Candidates(inner) = {}
    /\ reqTask' = "spin"
    /\ nCalls' = nCalls + 1
    /\ UNCHANGED <<inner, announced, mapTask, lock, writerTask, lastReq,
                   outstanding, nMsgs>>
    /\ UNCHANGED notMap

NextMap ==
    \/ \E p \in MapPeers, msg \in MapMessages : MapListen(p, msg)
    \/ \E p \in MapPeers : WriterListen(p)
    \/ RequestPiece
    \/ RequestPieceSpin

(***************************************************************************)
(* The piece store (piece_manager.rs).  PiecesWrapper keeps per piece an    *)
(* optional byte buffer, one written flag per block and a flushed flag.     *)
(* write, verify_piece and flush_piece are checked as functions of the      *)
(* PiecesWrapper they are called on: besides the store PiecesWrapper::new   *)
(* builds, the stores drawn hold pieces with data and with flags set,       *)
(* which write itself never produces.  The files under ./downloads are the  *)
(* sequence of their contents.  A SHA-1 digest is the pair of the tag       *)
(* "sha1" and the bytes digested (no collisions); the digest an Info holds  *)
(* is such a pair.                                                          *)
(***************************************************************************)
StoreBytes == {0, 1}

Sha1(bytes) == <<"sha1", bytes>>

\* the byte strings of exactly n bytes
BytesOfLen(n) == { b \in SeqsUpTo(StoreBytes, n) : Len(b) = n }

Zeros(n) ==
    LET RECURSIVE Go(_)
        Go(k) == IF k = 0 THEN <<>> ELSE Append(Go(k - 1), 0)
    IN Go(n)

SumTo(lens, i) ==
    LET RECURSIVE Go(_)
        Go(k) == IF k = 0 THEN 0 ELSE Go(k - 1) + lens[k]
    IN Go(i)

\* the lengths of the files of a Mode, in order
FileLengths(mode) == IF mode.kind = "Single" THEN << mode.length >> ELSE mode.files

\* Piece::new: no buffer (the empty sequence; <<data>> is Some(data))
PieceNew(blocks) ==
    [inner |-> <<>>, written |-> [k \in 1..blocks |-> FALSE], flushed |-> FALSE]

\* Piece::complete
Complete(piece) == \A k \in 1..Len(piece.written) : piece.written[k]

\* PiecesWrapper::new
PiecesWrapperNew(info) ==
    [piece_len |-> info.piece_length,
     hashes |-> info.pieces,
     inner |-> [k \in 1..Len(info.pieces) |->
                  PieceNew((info.piece_length \div BLOCK_SIZE) + 1)],
     mode |-> info.mode]

\* Cursor<&mut [u8]>: seek to begin, then write_all(block); bytes that do not
\* fit are not written and write_all fails with WriteZero
CursorWrite(buf, begin, block) ==
    LET n == IF begin >= Len(buf) THEN 0 ELSE Min(Len(block), Len(buf) - begin)
    IN [buf |-> [k \in 1..Len(buf) |->
                   IF k > begin /\ k <= begin + n THEN block[k - begin] ELSE buf[k]],
        tag |-> IF n = Len(block) THEN "Ok" ELSE "WriteZero"]

\* PiecesWrapper::write
PwWrite(w, index, begin, block) ==
    IF index >= Len(w.inner) THEN [tag |-> "InvalidPieceIdx", pw |-> w]
    ELSE IF w.inner[index + 1].inner = <<>> THEN [tag |-> "InvalidPieceIdx", pw |-> w]
    ELSE LET c == CursorWrite(w.inner[index + 1].inner[1], begin, block)
         IN [tag |-> c.tag,
             pw |-> [w EXCEPT !.inner[index + 1].inner = << c.buf >>]]

\* PiecesWrapper::verify_piece: the results it can end with.  hash is
\* Vec::with_capacity(..), of length 0; hasher.result(&mut hash) is handed
\* that empty slice, which it either refuses by panicking or leaves as it is
VerifyPiece(w, index) ==
    IF index >= Len(w.inner) THEN { "InvalidPieceIdx" }
    ELSE IF w.inner[index + 1].inner = <<>> THEN { "panic" }
    ELSE LET hash == <<>>
         IN { "panic", IF hash = w.hashes[index + 1] THEN "Ok" ELSE "InvalidPieceHash" }

\* the Multi arm of flush_piece up to set_position: the results of the
\* search for the file.  find(..) - 1 on usize panics when find returns 0 in a
\* build with overflow checks and wraps otherwise, where files.get fails
MultiTarget(files, piece_len, index) ==
    LET piece_offset == piece_len * index
        file_offsets(i) == SumTo(files, i)
        found == { i \in 0..(Len(files) - 1) : file_offsets(i) >= piece_offset }
        first == CHOOSE i \in found : \A j \in found : i <= j
    IN IF found = {} THEN { [tag |-> "NonExistentFile", file |-> 0, pos |-> 0] }
       ELSE IF first = 0
            THEN { [tag |-> "panic", file |-> 0, pos |-> 0],
                   [tag |-> "NonExistentFile", file |-> 0, pos |-> 0] }
            ELSE { [tag |-> "file", file |-> first - 1,
                    pos |-> piece_offset - file_offsets(first - 1)] }

\* PiecesWrapper::flush_piece: the results it can end with.  The file is
\* opened with File::open, read-only, so write_all on it fails; no arm
\* changes a file or a piece
FlushPiece(w, index) ==
    IF index >= Len(w.inner) THEN { "InvalidPieceIdx" }
    ELSE IF w.inner[index + 1].flushed \/ ~Complete(w.inner[index + 1])
         THEN { "AlreadyFlushed" }
    ELSE { IF v = "Ok"
           THEN IF w.mode.kind = "Single" THEN "Io"
                ELSE IF \E t \in MultiTarget(w.mode.files, w.piece_len, index) :
                           t.tag = "file"
                     THEN "Io" ELSE "NonExistentFile"
           ELSE v : v \in VerifyPiece(w, index) }

\* the modes drawn: one file, or two files that split the first piece
StoreModes ==
    { [kind |-> "Single", length |-> NumStorePieces * StorePieceLen, files |-> <<>>],
      [kind |-> "Multi", length |-> 0,
       files |-> << 1, NumStorePieces * StorePieceLen - 1 >>] }

\* the Info values drawn
StoreInfos ==
    { [piece_length |-> StorePieceLen, pieces |-> hs, mode |-> m] :
        hs \in { h \in SeqsUpTo({ Sha1(b) : b \in BytesOfLen(StorePieceLen) },
                               NumStorePieces) : Len(h) = NumStorePieces },
        m \in StoreModes }

\* the pieces drawn: Piece::new, or a piece with a buffer and any flags
StorePieceValues(info) ==
    LET blocks == (info.piece_length \div BLOCK_SIZE) + 1
    IN { PieceNew(blocks) }
       \cup { [inner |-> << b >>, written |-> [k \in 1..blocks |-> wr], flushed |-> fl] :
                b \in BytesOfLen(info.piece_length), wr \in BOOLEAN, fl \in BOOLEAN }

NoRet ==
    [op |-> "none", index |-> 0, begin |-> 0, block |-> <<>>, tag |-> "none",
     was |-> <<>>, file |-> 0, pos |-> 0]

IdleStore ==
    /\ pw = <<>>
    /\ disk = <<>>
    /\ pwRet = NoRet

\* a store for a drawn Info: piece 0 is drawn, the other pieces are new; the
\* files exist and hold zeros
InitStore ==
    /\ \E info \in StoreInfos :
         \E p \in StorePieceValues(info) :
            /\ pw = [PiecesWrapperNew(info) EXCEPT !.inner[1] = p]
            /\ disk = [f \in 1..Len(FileLengths(info.mode)) |->
                         Zeros(FileLengths(info.mode)[f])]
    /\ pwRet = NoRet

\* a call of PiecesWrapper::write; no call follows one that panicked
StoreWrite(index, begin, block) ==
    /\ pwRet.tag /= "panic"
    /\ LET r == PwWrite(pw, index, begin, block)
       IN /\ pw' = r.pw
          /\ pwRet' = [NoRet EXCEPT !.op = "write", !.index = index, !.begin = begin,
                                    !.block = block, !.tag = r.tag, !.was = pw]
    /\ UNCHANGED disk
    /\ UNCHANGED notStore

\* a call of PiecesWrapper::verify_piece
StoreVerify(index) ==
    /\ pwRet.tag /= "panic"
    /\ \E t \in VerifyPiece(pw, index) :
         pwRet' = [NoRet EXCEPT !.op = "verify", !.index = index, !.tag = t, !.was = pw]
    /\ UNCHANGED <<pw, disk>>
    /\ UNCHANGED notStore

\* a call of PiecesWrapper::flush_piece
StoreFlush(index) ==
    /\ pwRet.tag /= "panic"
    /\ \E t \in FlushPiece(pw, index) :
         pwRet' = [NoRet EXCEPT !.op = "flush", !.index = index, !.tag = t, !.was = pw]
    /\ UNCHANGED <<pw, disk>>
    /\ UNCHANGED notStore

NextStore ==
    \/ \E index \in 0..NumStorePieces, begin \in 0..StorePieceLen,
          block \in { b \in SeqsUpTo(StoreBytes, StorePieceLen) : b /= <<>> } :
            StoreWrite(index, begin, block)
    \/ \E index \in 0..NumStorePieces : StoreVerify(index)
    \/ \E index \in 0..NumStorePieces : StoreFlush(index)

\* the file layouts drawn for the search of flush_piece
LayoutFiles == { f \in SeqsUpTo(1..MaxFileLen, MaxFiles) : f /= <<>> }

\* the number of pieces of a torrent of these files
LayoutPieces(files, piece_len) ==
    (SumTo(files, Len(files)) + piece_len - 1) \div piece_len

InitLayout ==
    /\ \E files \in LayoutFiles, piece_len \in 1..StorePieceLen :
         pw = PiecesWrapperNew(
                [piece_length |-> piece_len,
                 pieces |-> [k \in 1..LayoutPieces(files, piece_len) |-> Sha1(<<>>)],
                 mode |-> [kind |-> "Multi", length |-> 0, files |-> files]])
    /\ disk = <<>>
    /\ pwRet = NoRet

\* the search of flush_piece for the file of piece index
LayoutTarget(index) ==
    /\ pwRet.tag /= "panic"
    /\ index < Len(pw.hashes)
    /\ \E t \in MultiTarget(pw.mode.files, pw.piece_len, index) :
         pwRet' = [NoRet EXCEPT !.op = "target", !.index = index, !.tag = t.tag,
                                !.file = t.file, !.pos = t.pos, !.was = pw]
    /\ UNCHANGED <<pw, disk>>
    /\ UNCHANGED notStore

NextLayout == \E index \in 0..(MaxFiles * MaxFileLen) : LayoutTarget(index)

(***************************************************************************)
(* The UDP tracker exchange (router.rs, udp.rs).                           *)
(*                                                                         *)
(* Router::next consumes the Router and returns the next one.  Its two     *)
(* arms run one dispatch per tracker, all of them on the one socket the    *)
(* Router holds: join_all for connect, select_ok for announce.  A dispatch *)
(* sends, then waits timeout_n seconds for whatever datagram socket.recv   *)
(* hands it.  The trackers, the socket and the caller of next are the      *)
(* environment: a tracker answers a request it got or does not, a send     *)
(* succeeds or fails, and the caller lets any time pass between calls.     *)
(***************************************************************************)
\* Router.magnet.trackers, in order
UdpTrackers == <<"T1", "T2">>

TrackerSet == { UdpTrackers[i] : i \in DOMAIN UdpTrackers }

\* the connection id a tracker issues
CidOf(t) == IF t = "T1" THEN 11 ELSE 22

\* the values rand::thread_rng().gen::<i32>() is drawn from here
Tids == {1, 2}

\* the transaction ids of the dispatches of one call: all different, or two
\* of them equal
TidChoices ==
    { tids \in [TrackerSet -> Tids] : tids[UdpTrackers[1]] = 1 }

\* the arguments of the two dispatch calls
ConnectTimeout == 3

ConnectRetries == 1

AnnounceTimeout == 3

AnnounceRetries == 4

\* the time the caller lets pass before a call of Router::next
CallerDelays == {0, 61}

Max(a, b) == IF a >= b THEN a ELSE b

NoDatagram == [src |-> "none", action |-> 0, tid |-> 0, cid |-> 0, peers |-> <<>>]

\* what a tracker answers to a request: a connect response with its
\* connection id, an announce response with its peers when the request
\* carries its connection id, an error response otherwise
ReplyOf(req) ==
    IF req.action = 0
    THEN [src |-> req.dst, action |-> 0, tid |-> req.tid, cid |-> CidOf(req.dst),
          peers |-> <<>>]
    ELSE IF req.cid = CidOf(req.dst)
    THEN [src |-> req.dst, action |-> 1, tid |-> req.tid, cid |-> 0,
          peers |-> <<req.dst>>]
    ELSE [src |-> req.dst, action |-> 3, tid |-> req.tid, cid |-> 0,
          peers |-> <<>>]

\* Response::to_response: the variant is chosen by the action byte alone
ToResponse(d) ==
    CASE d.action = 0 -> "Connect"
      [] d.action = 1 -> "Announce"
      [] d.action = 2 -> "Scrape"
      [] OTHER -> "Error"

IdleSess ==
    [phase |-> "idle", kind |-> "none", tid |-> 0, cid |-> 0, at |-> 0,
     n |-> 0, sent |-> 0, wait |-> 0, sentAt |-> 0, retries |-> 0,
     got |-> NoDatagram, why |-> "none"]

\* a dispatch that is about to enter its loop
StartSess(kind, tid, cid, at) ==
    [IdleSess EXCEPT !.phase = "start", !.kind = kind, !.tid = tid, !.cid = cid,
                     !.at = at,
                     !.wait = IF kind = "connect" THEN ConnectTimeout
                              ELSE AnnounceTimeout,
                     !.retries = IF kind = "connect" THEN ConnectRetries
                                 ELSE AnnounceRetries]

NoVia == [addr |-> "none", tid |-> 0, got |-> NoDatagram]

RouterNew ==
    [tag |-> "Disconnected", trackers |-> <<>>, peers |-> <<>>, cid |-> 0,
     via |-> NoVia]

\* next has returned Err, or has panicked: the Router it consumed is gone
RouterGone(how) == [RouterNew EXCEPT !.tag = how]

\* the entry of State::Connected.trackers for a tracker, if it has one
EntryOf(t) ==
    { router.trackers[i] : i \in { j \in DOMAIN router.trackers :
                                     router.trackers[j].addr = t } }

IdleUdp ==
    /\ router = <<>>
    /\ call = "none"
    /\ sess = <<>>
    /\ out = {}
    /\ net = {}
    /\ now = 0

\* Router::new
InitUdp ==
    /\ router = RouterNew
    /\ call = "none"
    /\ sess = [t \in TrackerSet |-> IdleSess]
    /\ out = {}
    /\ net = {}
    /\ now = 0

\* Router::next is called: the arm is chosen by (state, event)
NextCall(event, delay) ==
    /\ call = "none"
    /\ router.tag \in {"Disconnected", "Connected", "Announced"}
    /\ router.tag = "Disconnected" => delay = 0
    /\ now' = now + delay
    /\ CASE router.tag = "Disconnected" /\ event = "Connect" ->
              \E tids \in TidChoices :
                  /\ sess' = [t \in TrackerSet |->
                                 StartSess("connect", tids[t], 0, 0)]
                  /\ call' = "connect"
                  /\ UNCHANGED router
         [] router.tag = "Connected" /\ event = "Announce" ->
              IF router.trackers = <<>>
              THEN \* select_ok panics on an empty iterator
                   /\ router' = RouterGone("panic")
                   /\ UNCHANGED <<sess, call>>
              ELSE \E tids \in TidChoices :
                  /\ sess' = [t \in TrackerSet |->
                                 IF EntryOf(t) = {} THEN IdleSess
                                 ELSE LET e == CHOOSE x \in EntryOf(t) : TRUE
                                      IN StartSess("announce", tids[t], e.cid, e.at)]
                  /\ call' = "announce"
                  /\ UNCHANGED router
         [] OTHER ->
              \* todo!() and panic!()
              /\ router' = RouterGone("panic")
              /\ UNCHANGED <<sess, call>>
    /\ UNCHANGED <<out, net>>
    /\ UNCHANGED notUdp

\* the loop of dispatch is left: with nothing received it returns DeadTrackers
AfterTry(s) ==
    IF s.n = s.retries
    THEN [s EXCEPT !.phase = "err", !.why = "DeadTrackers"]
    ELSE [s EXCEPT !.phase = "start"]

\* dispatch: send_to succeeds, the wait for a datagram starts
DispatchSend(t) ==
    /\ sess[t].phase = "start"
    /\ out' = out \cup {[dst |-> t,
                         action |-> IF sess[t].kind = "connect" THEN 0 ELSE 1,
                         tid |-> sess[t].tid, cid |-> sess[t].cid]}
    /\ sess' = [sess EXCEPT ![t] = [@ EXCEPT !.phase = "wait", !.n = @ + 1,
                                              !.sent = @ + 1, !.sentAt = now]]
    /\ UNCHANGED <<router, call, net, now>>
    /\ UNCHANGED notUdp

\* dispatch: send_to returns WouldBlock, the loop continues without a wait
DispatchWouldBlock(t) ==
    /\ sess[t].phase = "start"
    /\ sess' = [sess EXCEPT ![t] = AfterTry([@ EXCEPT !.n = @ + 1])]
    /\ UNCHANGED <<router, call, out, net, now>>
    /\ UNCHANGED notUdp

\* dispatch: send_to returns another error, dispatch returns it
DispatchSendError(t) ==
    /\ sess[t].phase = "start"
    /\ sess' = [sess EXCEPT ![t] = [@ EXCEPT !.phase = "err", !.why = "Io"]]
    /\ UNCHANGED <<router, call, out, net, now>>
    /\ UNCHANGED notUdp

\* dispatch: socket.recv returns a datagram, whichever is first in the buffer
\* of the socket; try_tracker and the announce future match on its variant.
\* An announce future that gets an Announce response ends select_ok at once.
DispatchRecv(t) ==
    /\ sess[t].phase = "wait"
    /\ \E d \in net :
        /\ net' = net \ {d}
        /\ IF sess[t].kind = "connect"
           THEN /\ sess' = [sess EXCEPT ![t] =
                      IF ToResponse(d) = "Connect"
                      THEN [@ EXCEPT !.phase = "ok", !.cid = d.cid, !.at = now,
                                     !.got = d]
                      ELSE [@ EXCEPT !.phase = "err", !.why = "DeadTrackers",
                                     !.got = d]]
                /\ UNCHANGED <<router, call>>
           ELSE IF ToResponse(d) = "Announce"
           THEN /\ router' = [tag |-> "Announced", trackers |-> <<>>,
                              peers |-> d.peers, cid |-> sess[t].cid,
                              via |-> [addr |-> t, tid |-> sess[t].tid,
                                       got |-> d]]
                /\ call' = "none"
                /\ sess' = [u \in TrackerSet |-> IdleSess]
           ELSE /\ sess' = [sess EXCEPT ![t] =
                      [@ EXCEPT !.phase = "err", !.why = "UnexpectedResponse",
                                !.got = d]]
                /\ UNCHANGED <<router, call>>
    /\ UNCHANGED <<out, now>>
    /\ UNCHANGED notUdp

\* dispatch: timeout_n seconds have passed without a datagram
DispatchTimeout(t) ==
    /\ sess[t].phase = "wait"
    /\ now' = Max(now, sess[t].sentAt + sess[t].wait)
    /\ sess' = [sess EXCEPT ![t] = AfterTry(@)]
    /\ UNCHANGED <<router, call, out, net>>
    /\ UNCHANGED notUdp

\* a tracker answers a request; the answer arrives at the shared socket
TrackerReplies(t) ==
    /\ \E req \in out :
        /\ req.dst = t
        /\ out' = out \ {req}
        /\ net' = net \cup {ReplyOf(req)}
    /\ UNCHANGED <<router, call, sess, now>>
    /\ UNCHANGED notUdp

\* the trackers whose try_tracker returned Ok, in the order of magnet.trackers
ConnectedEntry(i) ==
    [addr |-> UdpTrackers[i], cid |-> sess[UdpTrackers[i]].cid,
     at |-> sess[UdpTrackers[i]].at, tid |-> sess[UdpTrackers[i]].tid,
     got |-> sess[UdpTrackers[i]].got]

RECURSIVE OkTrackers(_)
OkTrackers(i) ==
    IF i = 0 THEN <<>>
    ELSE IF sess[UdpTrackers[i]].phase = "ok"
    THEN Append(OkTrackers(i - 1), ConnectedEntry(i))
    ELSE OkTrackers(i - 1)

\* join_all is ready: next returns the Router in State::Connected
ConnectJoined ==
    /\ call = "connect"
    /\ \A t \in TrackerSet : sess[t].phase \in {"ok", "err"}
    /\ router' = [RouterNew EXCEPT !.tag = "Connected",
                                   !.trackers = OkTrackers(Len(UdpTrackers))]
    /\ call' = "none"
    /\ sess' = [t \in TrackerSet |-> IdleSess]
    /\ UNCHANGED <<out, net, now>>
    /\ UNCHANGED notUdp

\* every announce future has failed: select_ok, and with it next, returns Err
AnnounceFailed ==
    /\ call = "announce"
    /\ \A t \in TrackerSet : sess[t].phase \in {"idle", "err"}
    /\ router' = RouterGone("Err")
    /\ call' = "none"
    /\ sess' = [t \in TrackerSet |-> IdleSess]
    /\ UNCHANGED <<out, net, now>>
    /\ UNCHANGED notUdp

NextUdp ==
    \/ \E event \in {"Connect", "Announce"}, delay \in CallerDelays :
           NextCall(event, delay)
    \/ \E t \in TrackerSet : DispatchSend(t)
    \/ \E t \in TrackerSet : DispatchWouldBlock(t)
    \/ \E t \in TrackerSet : DispatchSendError(t)
    \/ \E t \in TrackerSet : DispatchRecv(t)
    \/ \E t \in TrackerSet : DispatchTimeout(t)
    \/ \E t \in TrackerSet : TrackerReplies(t)
    \/ ConnectJoined
    \/ AnnounceFailed

(***************************************************************************)
(* The HTTP tracker sessions (tracker.rs, tracker_session.rs, bencode.rs). *)
(*                                                                         *)
(* HttpTracker::run spawns HttpSession::run for every session into one     *)
(* JoinSet and joins them.  A session sends one GET; what comes back is    *)
(* the tracker's choice: no response at all, a body that is not a bencoded *)
(* dictionary, or a dictionary, with or without a `failure reason`.        *)
(***************************************************************************)
HttpSessions == {"H1", "H2"}

\* the capacity of the peer channel
PeerChanCap == 100

\* the number of times the sleep of one session is followed
MaxSleeps == 2

\* HttpResponse::decode_bencode_object: the fields of the dictionary the
\* session reads; keys that are absent leave the defaults, 0 and no peers
HttpResponses ==
    [failure_reason : {FALSE}, interval : {30}, min_interval : {<<>>, <<10>>},
     peers : {<<>>, <<"p">>}]
    \cup [failure_reason : {TRUE}, interval : {0}, min_interval : {<<>>},
          peers : {<<>>, <<"p">>}]

NoResp ==
    [failure_reason |-> FALSE, interval |-> 0, min_interval |-> <<"none">>,
     peers |-> <<>>]

\* what HttpSession::get comes to
GetOutcomes ==
    { [tag |-> "Err", resp |-> NoResp], [tag |-> "panic", resp |-> NoResp] }
    \cup { [tag |-> "Ok", resp |-> r] : r \in HttpResponses }

\* resp.min_interval.unwrap_or(resp.interval)
IntervalOf(resp) ==
    IF resp.min_interval = <<>> THEN resp.interval ELSE resp.min_interval[1]

IdleHttp ==
    /\ httpSess = <<>>
    /\ peerChan = <<>>
    /\ joined = "off"

\* HttpTracker::run has spawned the sessions
InitHttp ==
    /\ httpSess = [s \in HttpSessions |->
                [pc |-> "spawned", announces |-> 0, slept |-> 0, interval |-> 0,
                 resp |-> NoResp]]
    /\ peerChan = <<>>
    /\ joined = "running"

\* HttpSession::run up to its loop: one GET; Err ends run, a body that does
\* not decode panics in get, and any decoded response has its peers sent
HttpRun(s, o) ==
    /\ httpSess[s].pc = "spawned"
    /\ CASE o.tag = "Err" ->
              /\ httpSess' = [httpSess EXCEPT ![s] = [@ EXCEPT !.pc = "returned",
                                                   !.announces = 1]]
              /\ UNCHANGED peerChan
         [] o.tag = "panic" ->
              /\ httpSess' = [httpSess EXCEPT ![s] = [@ EXCEPT !.pc = "panicked",
                                                   !.announces = 1]]
              /\ UNCHANGED peerChan
         [] OTHER ->
              /\ Len(peerChan) < PeerChanCap
              /\ peerChan' = Append(peerChan, [from |-> s, peers |-> o.resp.peers])
              /\ httpSess' = [httpSess EXCEPT ![s] =
                           [@ EXCEPT !.pc = "sleeping", !.announces = 1,
                                     !.resp = o.resp,
                                     !.interval = IntervalOf(o.resp)]]
    /\ UNCHANGED joined
    /\ UNCHANGED notHttp

\* the loop of HttpSession::run: the sleep of one interval is over, and the
\* loop sleeps again
HttpSleep(s) ==
    /\ httpSess[s].pc = "sleeping"
    /\ httpSess[s].slept < MaxSleeps
    /\ httpSess' = [httpSess EXCEPT ![s] = [@ EXCEPT !.slept = @ + 1]]
    /\ UNCHANGED <<peerChan, joined>>
    /\ UNCHANGED notHttp

\* HttpTracker::run: join_next yields a session that has ended; a session
\* that panicked makes run return the JoinError, and the JoinSet that is
\* dropped with it aborts the sessions still running
JoinNext(s) ==
    /\ joined = "running"
    /\ httpSess[s].pc \in {"returned", "panicked"}
    /\ IF httpSess[s].pc = "returned"
       THEN /\ httpSess' = [httpSess EXCEPT ![s] = [@ EXCEPT !.pc = "joined"]]
            /\ UNCHANGED joined
       ELSE /\ httpSess' = [u \in HttpSessions |->
                         IF httpSess[u].pc \in {"spawned", "sleeping"}
                         THEN [httpSess[u] EXCEPT !.pc = "aborted"]
                         ELSE httpSess[u]]
            /\ joined' = "failed"
    /\ UNCHANGED peerChan
    /\ UNCHANGED notHttp

\* HttpTracker::run: join_next yields None, run returns Ok
RunReturns ==
    /\ joined = "running"
    /\ \A s \in HttpSessions : httpSess[s].pc = "joined"
    /\ joined' = "done"
    /\ UNCHANGED <<httpSess, peerChan>>
    /\ UNCHANGED notHttp

NextHttp ==
    \/ \E s \in HttpSessions, o \in GetOutcomes : HttpRun(s, o)
    \/ \E s \in HttpSessions : HttpSleep(s)
    \/ \E s \in HttpSessions : JoinNext(s)
    \/ RunReturns

(***************************************************************************)
(* The way of a peer list into connections (peer.rs Router::connect and    *)
(* Router::run).  The tracker sessions send the peer list of a response    *)
(* into the peer channel; the task of Router::connect takes each list and  *)
(* sends one (handshake future, peer) pair per entry; the loop of          *)
(* Router::run takes each pair and spawns a task that runs the handshake.  *)
(***************************************************************************)
\* the socket addresses the trackers know
Endpoints == {"e1", "e2"}

\* the number of entries of one peer list
MaxListLen == 2

\* the number of peer lists sent
MaxLists == 2

\* resp.peers: one entry per element of the `peers` list of the response,
\* or per 6 bytes of its compact form
PeerLists == SeqsUpTo(Endpoints, MaxListLen)

IdlePool ==
    /\ peerRx = <<>>
    /\ connQ = <<>>
    /\ attempts = <<>>
    /\ nLists = 0

InitPool == IdlePool

\* HttpSession::run: self.peer_tx.send(resp.peers)
SessionSends(list) ==
    /\ nLists < MaxLists
    /\ Len(peerRx) < PeerChanCap
    /\ peerRx' = Append(peerRx, list)
    /\ nLists' = nLists + 1
    /\ UNCHANGED <<connQ, attempts>>
    /\ UNCHANGED notPool

\* the task of Router::connect: peer_rx.recv() returns a list, and for every
\* peer of it a pair is sent into the unbounded channel
ConnectRecv ==
    /\ peerRx # <<>>
    /\ connQ' = connQ \o Head(peerRx)
    /\ peerRx' = Tail(peerRx)
    /\ UNCHANGED <<attempts, nLists>>
    /\ UNCHANGED notPool

\* the loop of Router::run: rx.recv() returns a pair and the task spawned
\* for it awaits the handshake future, which begins with TcpStream::connect
RunRecv ==
    /\ connQ # <<>>
    /\ attempts' = Append(attempts, Head(connQ))
    /\ connQ' = Tail(connQ)
    /\ UNCHANGED <<peerRx, nLists>>
    /\ UNCHANGED notPool

NextPool ==
    \/ \E list \in PeerLists : SessionSends(list)
    \/ ConnectRecv
    \/ RunRecv

(***************************************************************************)
(* The writer (writer.rs).  Buffer holds the pieces in memory; the task of  *)
(* Writer::download takes the messages of the peers from req_rx and writes  *)
(* the block of a piece message into the buffer.  The messages are parsed   *)
(* from the frames the peers wrote.                                         *)
(***************************************************************************)
\* the pieces of the buffer and the length of one
DlPieces == 2
DlPieceLen == 3

\* the messages after which the task is followed
MaxDlMsgs == 2

\* Buffer::new(piece_len, pieces)
BufferNew(piece_len, pieces) ==
    [inner |-> Rep(Rep(0, piece_len), pieces), pieces |-> pieces, piece_len |-> piece_len]

\* Buffer::write: the two asserts, get_mut(index).unwrap(), the slice
\* piece[begin..begin + block.len()] and the copy
BufferWrite(b, index, begin, block) ==
    IF ~(index >= b.pieces) THEN [tag |-> "panic", b |-> b]           \* assert!
    ELSE IF index >= Len(b.inner) THEN [tag |-> "panic", b |-> b]     \* unwrap of None
    ELSE IF begin > b.piece_len THEN [tag |-> "panic", b |-> b]       \* piece_len - begin
    ELSE IF ~(begin >= b.piece_len - begin) THEN [tag |-> "panic", b |-> b]
    ELSE IF begin + Len(block) > Len(b.inner[index + 1]) THEN [tag |-> "panic", b |-> b]
    ELSE [tag |-> "ok",
          b |-> [b EXCEPT !.inner[index + 1] =
                    [i \in 1..Len(@) |->
                        IF i > begin /\ i <= begin + Len(block)
                        THEN block[i - begin] ELSE @[i]]]]

\* what the peers may write: pieces with a block of one or two bytes for
\* every index up to one past the last piece and every begin up to the piece
\* length, a cancel, and an unchoke
DlFrames ==
    { WireFrame(7, U32ToBeBytes(i) \o U32ToBeBytes(g) \o d) :
          i \in 0..DlPieces, g \in 0..DlPieceLen, d \in {<<42>>, <<42, 43>>} }
    \cup { WireFrame(8, U32ToBeBytes(i) \o U32ToBeBytes(0) \o U32ToBeBytes(2)) :
          i \in 0..DlPieces }
    \cup { WireFrame(1, <<>>) }

\* no writer
IdleDl ==
    /\ wbuf = <<>>
    /\ dlTask = "off"
    /\ dlLast = <<>>

\* Writer::new with Buffer::new, and download started
InitDl ==
    /\ wbuf = BufferNew(DlPieceLen, DlPieces)
    /\ dlTask = "run"
    /\ dlLast = <<>>

\* Writer::download, one message: the frame f of a peer, parsed
Download(f) ==
    /\ dlTask = "run"
    /\ Len(dlLast) < MaxDlMsgs
    /\ LET m == MessageParse(f).frame
           r == IF m.id = "Piece" THEN BufferWrite(wbuf, m.index, m.begin, m.block)
                ELSE IF m.id = "Cancel" THEN [tag |-> "ok", b |-> wbuf]
                ELSE [tag |-> "panic", b |-> wbuf]                    \* _ => panic!()
       IN /\ wbuf' = r.b
          /\ dlTask' = IF r.tag = "ok" THEN "run" ELSE "panic"
          /\ dlLast' = Append(dlLast, [frame |-> f, msg |-> m, was |-> wbuf.inner])
    /\ UNCHANGED notDl

\* every sender of req_rx is gone: recv returns None and download returns
DownloadEnds ==
    /\ dlTask = "run"
    /\ dlTask' = "done"
    /\ UNCHANGED <<wbuf, dlLast>>
    /\ UNCHANGED notDl

NextDl ==
    \/ \E f \in DlFrames : Download(f)
    \/ DownloadEnds

(***************************************************************************)
(* Encoding and decoding (peer.rs and pwp.rs impl Request for Message,     *)
(* impl ParseCheck for Message).  A message is encoded with to_request and *)
(* the bytes are handed to parse.                                          *)
(***************************************************************************)
\* Message::to_request (peer.rs)
ToRequest(m) ==
    CASE m.id = "Choke" -> [tag |-> "ok", bytes |-> <<0, 0, 0, 1, 0>>]
      [] m.id = "Unchoke" -> [tag |-> "ok", bytes |-> <<0, 0, 0, 1, 1>>]
      [] m.id = "Interested" -> [tag |-> "ok", bytes |-> <<0, 0, 0, 1, 2>>]
      [] m.id = "Uninterested" -> [tag |-> "ok", bytes |-> <<0, 0, 0, 1, 3>>]
      [] m.id = "Have" ->
            [tag |-> "ok", bytes |-> <<0, 0, 0, 5, 4>> \o U32ToBeBytes(m.idx)]
      [] m.id = "Bitfield" ->
            [tag |-> "ok", bytes |-> U32ToBeBytes(Len(m.v) + 1) \o <<5>> \o m.v]
      [] m.id = "Request" ->
            [tag |-> "ok",
             bytes |-> U32ToBeBytes(13) \o <<6>> \o U32ToBeBytes(m.index)
                           \o U32ToBeBytes(m.begin) \o U32ToBeBytes(m.length)]
      [] m.id = "Piece" ->
            [tag |-> "ok",
             bytes |-> U32ToBeBytes(9 + Len(m.block)) \o <<7>> \o U32ToBeBytes(m.index)
                           \o U32ToBeBytes(m.begin) \o m.block]
      [] m.id = "Cancel" ->
            [tag |-> "ok",
             bytes |-> U32ToBeBytes(13) \o <<8>> \o U32ToBeBytes(m.index)
                           \o U32ToBeBytes(m.begin) \o U32ToBeBytes(m.length)]
      [] m.id = "Port" ->
            [tag |-> "ok",
             bytes |-> U32ToBeBytes(3) \o <<9>> \o <<m.port \div 256, m.port % 256>>]
      [] OTHER -> [tag |-> "panic", bytes |-> <<>>]        \* Extended => todo!()

\* the length of the longest bitfield and block encoded
MaxPayload == 2

\* the messages that are encoded
Messages ==
    { [id |-> i] : i \in {"Choke", "Unchoke", "Interested", "Uninterested", "Extended"} }
    \cup { [id |-> "Have", idx |-> x] : x \in {0, 7, 300} }
    \cup { [id |-> "Bitfield", v |-> v] : v \in SeqsUpTo({0, 160, 255}, MaxPayload) }
    \cup { [id |-> "Request", index |-> i, begin |-> g, length |-> n] :
              i \in {0, 5}, g \in {0, 16384}, n \in {1, 16384} }
    \cup { [id |-> "Piece", index |-> i, begin |-> g, block |-> d] :
              i \in {0, 5}, g \in {0, 16384}, d \in SeqsUpTo({7, 42}, MaxPayload) }
    \cup { [id |-> "Cancel", index |-> i, begin |-> g, length |-> n] :
              i \in {0, 5}, g \in {0, 16384}, n \in {1, 16384} }
    \cup { [id |-> "Port", port |-> p] : p \in {0, 6881} }

\* nothing under encoding
IdleCodec ==
    /\ codecIn = <<>>
    /\ codecOut = <<>>

InitCodec == IdleCodec

\* to_request on a message
Encode(m) ==
    /\ codecIn = <<>>
    /\ codecIn' = <<m>>
    /\ codecOut' = <<ToRequest(m)>>
    /\ UNCHANGED notCodec

\* Message::parse on the bytes to_request gave
Decode ==
    /\ Len(codecOut) = 1
    /\ codecOut[1].tag = "ok"
    /\ codecOut' = Append(codecOut, MessageParse(codecOut[1].bytes))
    /\ UNCHANGED codecIn
    /\ UNCHANGED notCodec

NextCodec ==
    \/ \E m \in Messages : Encode(m)
    \/ Decode

(***************************************************************************)
(* The requests of the UDP tracker protocol on the wire (udp.rs            *)
(* Request::to_request).  An i64 is the pair of its two 32-bit halves.     *)
(***************************************************************************)
\* i32::to_be_bytes, two's complement for a negative n
I32ToBeBytes(n) ==
    IF n >= 0 THEN U32ToBeBytes(n)
    ELSE LET m == (n + 2147483647) + 1
         IN <<128 + (m \div 16777216)>> \o Drop(U32ToBeBytes(m), 1)

\* i64::to_be_bytes
I64ToBeBytes(x) == U32ToBeBytes(x.hi) \o U32ToBeBytes(x.lo)

\* an i64 below 2^31
I64(n) == [hi |-> 0, lo |-> n]

\* data.rs PROTOCOL_ID = 0x41727101980
PROTOCOL_ID == [hi |-> 1047, lo |-> 655366528]

\* enum TransferEvent and its discriminants
TransferEvent == <<"Inactive", "Completed", "Started", "Stopped">>

\* Request::to_request.  The event and the address of the request are not
\* read: two words of zeros stand in their places, and 1317 in the port's
UdpToRequest(req) ==
    IF req.kind = "Connect"
    THEN I64ToBeBytes(req.cid) \o I32ToBeBytes(req.action) \o I32ToBeBytes(req.tid)
    ELSE I64ToBeBytes(req.cid) \o I32ToBeBytes(req.action) \o I32ToBeBytes(req.tid)
            \o req.hash \o req.peer_id
            \o I64ToBeBytes(req.downloaded) \o I64ToBeBytes(req.left)
            \o I64ToBeBytes(req.uploaded)
            \o <<0, 0, 0, 0>>
            \o <<0, 0, 0, 0>>
            \o U32ToBeBytes(req.key) \o I32ToBeBytes(req.num_want)
            \o <<1317 \div 256, 1317 % 256>>

\* the sockets an announce names: unspecified (what Router::next passes),
\* the socket main binds, and another address
AnnounceSockets ==
    { [ip |-> <<0, 0, 0, 0>>, port |-> 0],
      [ip |-> <<0, 0, 0, 0>>, port |-> 1317],
      [ip |-> <<10, 0, 0, 1>>, port |-> 6881] }

\* the requests that are encoded
UdpRequests ==
    { [kind |-> "Connect", cid |-> PROTOCOL_ID, action |-> 0, tid |-> t] :
          t \in {1, -2, 305419896} }
    \cup
    { [kind |-> "Announce", cid |-> c, action |-> 1, tid |-> t,
       hash |-> InfoHash, peer_id |-> Rep(187, 20),
       downloaded |-> d, left |-> l, uploaded |-> I64(0),
       event |-> e, socket |-> s, key |-> 7, num_want |-> n, extensions |-> 0] :
          c \in {[hi |-> 1, lo |-> 2]}, t \in {1, -2},
          d \in {I64(0), [hi |-> 3, lo |-> 16384]}, l \in {I64(0), I64(65536)},
          e \in 1..Len(TransferEvent), s \in AnnounceSockets, n \in {-1, 50} }

InitUdpCodec == IdleCodec

\* to_request on a request
EncodeRequest(req) ==
    /\ codecIn = <<>>
    /\ codecIn' = <<req>>
    /\ codecOut' = <<[tag |-> "ok", bytes |-> UdpToRequest(req)]>>
    /\ UNCHANGED notCodec

NextUdpCodec == \E req \in UdpRequests : EncodeRequest(req)

\* the parts a specification does not run
IdleDm ==
    /\ bitfieldMap = <<>>
    /\ rarePieces = <<>>
    /\ rareBuffer = <<>>
    /\ dmTask = "off"
    /\ dmLast = <<>>

IdleStop == shutdown = FALSE

IdleLast == IdleDm /\ IdleStop

IdleMore == IdlePool /\ IdleDl /\ IdleCodec /\ IdleLast

IdleFirst == IdleFrame /\ IdleConn /\ IdleMap /\ IdleStore /\ IdleUdp /\ IdleHttp

(***************************************************************************)
(* Specifications.                                                         *)
(***************************************************************************)
\* the reader task of one connection, byte by byte
InitSpecFrame ==
    InitFrame /\ IdleConn /\ IdleMap /\ IdleStore /\ IdleUdp /\ IdleHttp /\ IdleMore

SpecFrame == InitSpecFrame /\ [][NextFrame]_vars

\* one connection, every kind of frame
InitSpec ==
    /\ IdleFrame /\ InitConn({"A"}, SeqsUpTo(ConnFrames, MaxWire))
    /\ IdleMap /\ IdleStore /\ IdleUdp /\ IdleHttp /\ IdleMore

Next == NextConn({"A"})

Spec == InitSpec /\ [][Next]_vars

\* two connections side by side
InitSpecPeers ==
    /\ IdleFrame /\ InitConn(PeerIds, SeqsUpTo(PeersFrames, MaxWirePeers))
    /\ IdleMap /\ IdleStore /\ IdleUdp /\ IdleHttp /\ IdleMore

NextPeers == NextConn(PeerIds)

SpecPeers == InitSpecPeers /\ [][NextPeers]_vars

\* the piece map, its listener and the writer
InitSpecMap ==
    IdleFrame /\ IdleConn /\ InitMap /\ IdleStore /\ IdleUdp /\ IdleHttp /\ IdleMore

SpecMap == InitSpecMap /\ [][NextMap]_vars

\* the piece store
InitSpecStore ==
    IdleFrame /\ IdleConn /\ IdleMap /\ InitStore /\ IdleUdp /\ IdleHttp /\ IdleMore

SpecStore == InitSpecStore /\ [][NextStore]_vars

\* the search of flush_piece for the file of a piece
InitSpecLayout ==
    IdleFrame /\ IdleConn /\ IdleMap /\ InitLayout /\ IdleUdp /\ IdleHttp /\ IdleMore

SpecLayout == InitSpecLayout /\ [][NextLayout]_vars

\* the UDP tracker exchange of one Router
InitSpecUdp ==
    IdleFrame /\ IdleConn /\ IdleMap /\ IdleStore /\ InitUdp /\ IdleHttp /\ IdleMore

SpecUdp == InitSpecUdp /\ [][NextUdp]_vars

\* the HTTP tracker sessions of one torrent
InitSpecHttp ==
    IdleFrame /\ IdleConn /\ IdleMap /\ IdleStore /\ IdleUdp /\ InitHttp /\ IdleMore

SpecHttp == InitSpecHttp /\ [][NextHttp]_vars

\* peer lists on their way into connections
InitSpecPool == IdleFirst /\ InitPool /\ IdleDl /\ IdleCodec /\ IdleLast

SpecPool == InitSpecPool /\ [][NextPool]_vars

\* one connection from the dial to its end
InitSpecClose ==
    /\ IdleFrame /\ InitClose({"A"})
    /\ IdleMap /\ IdleStore /\ IdleUdp /\ IdleHttp /\ IdleMore

SpecClose == InitSpecClose /\ [][NextClose]_vars

\* the same with the tasks scheduled
FairSpecClose == SpecClose /\ FairClose

\* the writer's download task
InitSpecDownload == IdleFirst /\ IdlePool /\ InitDl /\ IdleCodec /\ IdleLast

SpecDownload == InitSpecDownload /\ [][NextDl]_vars

\* the peer wire messages through to_request and parse
InitSpecCodec == IdleFirst /\ IdlePool /\ IdleDl /\ InitCodec /\ IdleLast

SpecCodec == InitSpecCodec /\ [][NextCodec]_vars

\* whole frames back to back, at byte level
InitSpecBackToBack ==
    InitBackToBack /\ IdleConn /\ IdleMap /\ IdleStore /\ IdleUdp /\ IdleHttp /\ IdleMore

SpecBackToBack == InitSpecBackToBack /\ [][NextFrame]_vars

\* the tracker requests through to_request
InitSpecUdpCodec == IdleFirst /\ IdlePool /\ IdleDl /\ InitUdpCodec /\ IdleLast

SpecUdpCodec == InitSpecUdpCodec /\ [][NextUdpCodec]_vars

(***************************************************************************)
(* The bitfields of the peers: piece_manager.rs, BitField and DataManager. *)
(* A BitField is a sequence of words; a word is a natural number.          *)
(***************************************************************************)
DmPeers == 2

DmMaxPieces == 8

DmMaxWords == 2

DmMaxWord == 1

SizeOfUsize == 8

RareBufferCapacity == 4

RECURSIVE WordAnd(_, _)
WordAnd(x, y) ==
    IF x = 0 \/ y = 0 THEN 0
    ELSE ((x % 2) * (y % 2)) + 2 * WordAnd(x \div 2, y \div 2)

RECURSIVE WordXor(_, _)
WordXor(x, y) ==
    IF x = 0 THEN y
    ELSE IF y = 0 THEN x
    ELSE ((x + y) % 2) + 2 * WordXor(x \div 2, y \div 2)

\* bitand_assign: the outcome of `left &= right`, "panic" when the
\* assertion on the lengths fails
BitAndAssign(left, right) ==
    IF Len(left) /= Len(right) THEN [tag |-> "panic"]
    ELSE [tag |-> "ok",
          v |-> [i \in 1..Len(left) |-> WordAnd(left[i], right[i])]]

\* bitxor: the outcome of `left ^ right`
BitXor(left, right) ==
    IF Len(left) /= Len(right) THEN [tag |-> "panic"]
    ELSE [tag |-> "ok",
          v |-> [i \in 1..Len(left) |-> WordXor(left[i], right[i])]]

\* buffer.into_iter().reduce(|b, acc| b ^ acc) over a buffer that is not
\* empty
RECURSIVE ReduceXor(_)
ReduceXor(buf) ==
    IF Len(buf) = 1 THEN [tag |-> "ok", v |-> buf[1]]
    ELSE LET front == ReduceXor(SubSeq(buf, 1, Len(buf) - 1))
         IN  IF front.tag = "panic" THEN front
             ELSE BitXor(front.v, buf[Len(buf)])

\* DataManager::new: the vector of rare pieces it builds
DataManagerNew(pieces) == <<0, pieces \div SizeOfUsize + 1>>

DmPeerIds == 1..DmPeers

\* the bitfields a peer can send
DmBitFields ==
    UNION {[1..n -> 0..DmMaxWord] : n \in 1..DmMaxWords}

InitDm ==
    /\ bitfieldMap = <<>>
    /\ \E pieces \in 1..DmMaxPieces : rarePieces = DataManagerNew(pieces)
    /\ rareBuffer = <<>>
    /\ dmTask = "listening"
    /\ dmLast = [tag |-> "none"]

\* one turn of the loop of DataManager::listen: (peer, bitfield) received
DmListen(peer, bitfield) ==
    /\ dmTask = "listening"
    /\ dmLast' = [tag |-> "some", peer |-> peer, bitfield |-> bitfield,
                  before |-> bitfieldMap]
    /\ LET stored == IF peer \in DOMAIN bitfieldMap
                     THEN BitAndAssign(bitfieldMap[peer], bitfield)
                     ELSE [tag |-> "ok", v |-> bitfield]
           reduced == ReduceXor(rareBuffer)
           rare == BitAndAssign(rarePieces, reduced.v)
       IN  IF stored.tag = "panic"
           THEN /\ dmTask' = "panic"
                /\ UNCHANGED <<bitfieldMap, rarePieces, rareBuffer>>
           ELSE /\ bitfieldMap' =
                      [p \in DOMAIN bitfieldMap \cup {peer} |->
                          IF p = peer THEN stored.v ELSE bitfieldMap[p]]
                /\ IF Len(rareBuffer) < RareBufferCapacity
                   THEN /\ rareBuffer' = Append(rareBuffer, bitfield)
                        /\ UNCHANGED <<rarePieces, dmTask>>
                   ELSE IF reduced.tag = "panic"
                   THEN /\ dmTask' = "panic"
                        /\ UNCHANGED <<rarePieces, rareBuffer>>
                   ELSE /\ rareBuffer' = <<>>
                        /\ IF rare.tag = "panic"
                           THEN /\ dmTask' = "panic"
                                /\ UNCHANGED rarePieces
                           ELSE /\ rarePieces' = rare.v
                                /\ UNCHANGED dmTask
    /\ UNCHANGED notDm

\* every sender of the channel is dropped: recv() yields None
DmChannelCloses ==
    /\ dmTask = "listening"
    /\ dmTask' = "done"
    /\ UNCHANGED <<bitfieldMap, rarePieces, rareBuffer, dmLast>>
    /\ UNCHANGED notDm

DmReceives == \E peer \in DmPeerIds, bitfield \in DmBitFields : DmListen(peer, bitfield)

NextDm == DmReceives \/ DmChannelCloses

InitSpecDm == IdleFirst /\ IdlePool /\ IdleDl /\ IdleCodec /\ InitDm /\ IdleStop

SpecDm == InitSpecDm /\ [][NextDm]_vars

(***************************************************************************)
(* Shutdown of the torrent.  No task of the program waits for a shutdown   *)
(* signal: HttpSession::run (tracker_session.rs 126-146) awaits only the   *)
(* GET, the send into the peer channel and the sleep of its loop.  The     *)
(* signal is therefore an event of the environment that changes nothing    *)
(* but the flag recording that it has happened.                            *)
(***************************************************************************)
SignalShutdown ==
    /\ ~shutdown
    /\ shutdown' = TRUE
    /\ UNCHANGED notStop

\* Parameters::from: the event of the one announce a session sends
ParametersFromEvent == "none"

\* the events a session has announced so far
AnnouncedEvents(s) ==
    IF httpSess[s].announces > 0 THEN {ParametersFromEvent} ELSE {}

\* the task of a session is over: run returned or panicked, or the task
\* was aborted with its JoinSet
SessionExited(s) == httpSess[s].pc \in {"returned", "panicked", "joined", "aborted"}

HttpRuns == \E s \in HttpSessions, o \in GetOutcomes : HttpRun(s, o)

HttpSleeps == \E s \in HttpSessions : HttpSleep(s)

JoinNexts == \E s \in HttpSessions : JoinNext(s)

NextStop == HttpRuns \/ HttpSleeps \/ JoinNexts \/ RunReturns \/ SignalShutdown

InitSpecStop ==
    /\ IdleFrame /\ IdleConn /\ IdleMap /\ IdleStore /\ IdleUdp /\ InitHttp
    /\ IdlePool /\ IdleDl /\ IdleCodec /\ IdleDm
    /\ shutdown = FALSE

SpecStop == InitSpecStop /\ [][NextStop]_vars

\* the runtime keeps polling every task that can take a step, and the
\* shutdown is signalled at some time
FairStop ==
    /\ \A s \in HttpSessions :
          /\ WF_vars(\E o \in GetOutcomes : HttpRun(s, o))
          /\ WF_vars(HttpSleep(s))
          /\ WF_vars(JoinNext(s))
    /\ WF_vars(RunReturns)
    /\ WF_vars(SignalShutdown)

FairSpecStop == SpecStop /\ FairStop

(***************************************************************************)
(* Magnet links: data.rs `impl TryFrom<Url> for TorrentInfo` and           *)
(* helpers.rs decode.  The query of the URL is the sequence of its (key,   *)
(* value) pairs.  The value of `xt` is given by its segments between the   *)
(* colons, the third of them as a sequence of characters, because decode   *)
(* reads it character by character; other values are opaque.               *)
(***************************************************************************)
MaxPairs == 3

HashLen == 20

LowerHex == <<"0", "1", "2", "3", "4", "5", "6", "7", "8", "9",
              "a", "b", "c", "d", "e", "f">>

UpperHex == <<"0", "1", "2", "3", "4", "5", "6", "7", "8", "9",
              "A", "B", "C", "D", "E", "F">>

IsHexDigit(c) == \E i \in 1..16 : LowerHex[i] = c \/ UpperHex[i] = c

HexVal(c) == (CHOOSE i \in 1..16 : LowerHex[i] = c \/ UpperHex[i] = c) - 1

\* u8::from_str_radix(chunk, 16) of a chunk of one or two characters: a
\* leading "+" is a sign, and at least one digit must follow it
FromStrRadix16(chunk) ==
    LET digits == IF chunk[1] = "+" THEN Tail(chunk) ELSE chunk
    IN  IF digits = <<>> \/ \E i \in DOMAIN digits : ~IsHexDigit(digits[i])
        THEN [tag |-> "Err"]
        ELSE [tag |-> "Ok",
              v |-> IF Len(digits) = 2
                    THEN 16 * HexVal(digits[1]) + HexVal(digits[2])
                    ELSE HexVal(digits[1])]

\* helpers::decode: chunks of two characters, each parsed and unwrapped,
\* and the bytes converted to [u8; 20] and unwrapped
HexDecode(s) ==
    LET n == (Len(s) + 1) \div 2
        parsed == [k \in 1..n |->
                      FromStrRadix16(SubSeq(s, 2 * k - 1, Min(2 * k, Len(s))))]
    IN  IF \E k \in 1..n : parsed[k].tag = "Err" THEN [tag |-> "panic"]
        ELSE IF n /= HashLen THEN [tag |-> "panic"]
        ELSE [tag |-> "Ok", v |-> [k \in 1..n |-> parsed[k].v]]

\* TorrentInfo::default()
TorrentInfoDefault ==
    [hash |-> Rep(0, HashLen), announce |-> <<>>, comment |-> "", peers |-> <<>>]

\* one turn of the loop of try_from
MagnetPair(info, pair) ==
    CASE pair.key = "xt" ->
            IF Len(pair.value) < 2 THEN [tag |-> "panic"]
            ELSE IF pair.value[2] = "btih"
            THEN IF Len(pair.value) < 3 THEN [tag |-> "panic"]
                 ELSE LET hash == HexDecode(pair.value[3])
                      IN  IF hash.tag = "panic" THEN hash
                          ELSE [tag |-> "Ok", info |-> [info EXCEPT !.hash = hash.v]]
            ELSE IF pair.value[2] = "btmh" THEN [tag |-> "panic"]
            ELSE [tag |-> "Err"]
      [] pair.key = "tr" ->
            [tag |-> "Ok",
             info |-> [info EXCEPT !.announce = Append(@, pair.value)]]
      [] pair.key = "dn" ->
            [tag |-> "Ok", info |-> [info EXCEPT !.comment = pair.value]]
      [] pair.key = "x.pe" ->
            IF pair.value = "unresolved" THEN [tag |-> "Err"]
            ELSE [tag |-> "Ok",
                  info |-> [info EXCEPT !.peers = Append(@, pair.value)]]
      [] OTHER -> [tag |-> "Ok", info |-> info]

RECURSIVE MagnetLoop(_, _)
MagnetLoop(info, pairs) ==
    IF pairs = <<>> THEN [tag |-> "Ok", info |-> info]
    ELSE LET r == MagnetPair(info, Head(pairs))
         IN  IF r.tag = "Ok" THEN MagnetLoop(r.info, Tail(pairs)) ELSE r

\* TorrentInfo::try_from(url)
TryFromUrl(pairs) == MagnetLoop(TorrentInfoDefault, pairs)

Hex40 == Rep("a", 38) \o <<"0", "F">>

\* the values of xt that are tried
XtValues ==
    { <<"urn", "btih", Hex40>>,
      <<"urn", "btih", Rep("a", 39)>>,
      <<"urn", "btih", Rep("a", 39) \o <<"g">>>>,
      <<"urn", "btih", Rep("Z", 30) \o <<"2", "7">>>>,
      <<"urn", "btih", Rep("b", 40), "x">>,
      <<"urn", "btmh", Hex40>>,
      <<"urn", "sha1", Hex40>>,
      <<"urn", "btih">>,
      <<"urn">> }

MagnetPairs ==
    [key : {"xt"}, value : XtValues]
    \cup [key : {"tr"}, value : {"udp://t1", "udp://t2"}]
    \cup [key : {"dn", "ws"}, value : {"name"}]
    \cup [key : {"x.pe"}, value : {"peer", "unresolved"}]

MagnetQueries == SeqsUpTo(MagnetPairs, MaxPairs)

InitMagnet ==
    /\ codecIn \in MagnetQueries
    /\ codecOut = [tag |-> "none"]

ParseMagnet ==
    /\ codecOut.tag = "none"
    /\ codecOut' = TryFromUrl(codecIn)
    /\ UNCHANGED codecIn
    /\ UNCHANGED notCodec

NextMagnet == ParseMagnet

InitSpecMagnet == IdleFirst /\ IdlePool /\ IdleDl /\ InitMagnet /\ IdleLast

SpecMagnet == InitSpecMagnet /\ [][NextMagnet]_vars

(***************************************************************************)
(* Extension-protocol messages and their bencoding (extensions.rs).        *)
(*                                                                         *)
(* A bencoded dictionary is a function from its keys to objects            *)
(* [t |-> "int" | "bytes" | "dict", v |-> ...]; the order of the pairs     *)
(* plays no part in what the decoder of extensions.rs reads.  An Option is *)
(* <<>> for None and <<x>> for Some(x); text is a sequence of bytes.       *)
(* Inputs leave `ipv6` empty, and set `ext_ip` only where `client` is      *)
(* empty, the encoder writing both under the key "v".                      *)
(***************************************************************************)
MaxExtId == 2

\* crate::EXTENSION_MAP: the names of the extensions this client supports
EXTENSION_MAP == <<"ut_metadata">>

RECURSIVE DecimalBytes(_)
DecimalBytes(n) ==
    IF n < 10 THEN <<48 + n>>
    ELSE Append(DecimalBytes(n \div 10), 48 + (n % 10))

\* format!("{:?}", ip) of an Ipv4Addr
Ipv4Debug(ip) ==
    DecimalBytes(ip[1]) \o <<46>> \o DecimalBytes(ip[2]) \o <<46>>
        \o DecimalBytes(ip[3]) \o <<46>> \o DecimalBytes(ip[4])

BInt(n) == [t |-> "int", v |-> n]

BBytes(b) == [t |-> "bytes", v |-> b]

\* the pairs the encoder of a handshake emits
HandshakePairs(h) ==
    { <<"m", [t |-> "dict",
              v |-> [k \in {EXTENSION_MAP[i] : i \in DOMAIN EXTENSION_MAP} |->
                        BInt(CHOOSE i \in DOMAIN EXTENSION_MAP : EXTENSION_MAP[i] = k)]]>> }
    \cup { <<"p", BInt(h.port[1])>> : x \in {1} \cap {Len(h.port)} }
    \cup { <<"v", BBytes(h.client[1])>> : x \in {1} \cap {Len(h.client)} }
    \cup { <<"v", BBytes(Ipv4Debug(h.ext_ip[1]))>> : x \in {1} \cap {Len(h.ext_ip)} }
    \cup { <<"ipv4", BBytes(Ipv4Debug(h.ipv4[1]))>> : x \in {1} \cap {Len(h.ipv4)} }
    \cup { <<"reqq", BInt(250)>> : x \in {1} \cap {Len(h.reqq)} }

DictOf(pairs) ==
    [k \in {p[1] : p \in pairs} |-> (CHOOSE p \in pairs : p[1] = k)[2]]

\* Message::to_bencode, up to the dictionary handed to the encoder
ExtToBencode(x) ==
    CASE x.tag = "Handshake" -> [tag |-> "Ok", v |-> DictOf(HandshakePairs(x))]
      [] x.tag = "Metadata" ->
            IF x.msg_type = 1 /\ x.total_size = <<>> THEN [tag |-> "panic"]
            ELSE [tag |-> "Ok",
                  v |-> DictOf({ <<"msg_type", BInt(x.msg_type)>>,
                                 <<"piece", BInt(x.piece)>> }
                               \cup { <<"total_size", BInt(x.total_size[1])>> :
                                         y \in {1} \cap {x.msg_type} })]

\* what the arm of one key of a handshake comes to: "Ok", "Err" or "panic"
HandshakeArm(k, o) ==
    CASE k = "m" ->
            IF o.t /= "dict" \/ \E n \in DOMAIN o.v : o.v[n].t /= "int"
            THEN "Err" ELSE "Ok"
      [] k \in {"p", "reqq"} -> IF o.t = "int" THEN "Ok" ELSE "Err"
      [] k = "v" -> IF o.t = "bytes" THEN "Ok" ELSE "Err"
      [] k = "yourip" ->
            IF o.t /= "bytes" THEN "Err"
            ELSE IF Len(o.v) \in {4, 16} THEN "Ok" ELSE "panic"
      [] k = "ipv4" ->
            IF o.t /= "bytes" THEN "Err"
            ELSE IF Len(o.v) < 4 THEN "panic" ELSE "Ok"
      [] k = "ipv6" ->
            IF o.t /= "bytes" THEN "Err"
            ELSE IF Len(o.v) < 16 THEN "panic" ELSE "Ok"
      [] OTHER -> "panic"

OptOf(d, k, f(_)) == IF k \in DOMAIN d THEN <<f(d[k])>> ELSE <<>>

\* Message::from_bencode of a dictionary: a dictionary with the key
\* msg_type becomes Message::Extension(Extension::default()), which is
\* Extension::None and is returned as it is; any other one is read as a
\* handshake
ExtFromBencode(d) ==
    IF "msg_type" \in DOMAIN d THEN [tag |-> "Ok", v |-> [tag |-> "None"]]
    ELSE IF \E k \in DOMAIN d : HandshakeArm(k, d[k]) = "panic" THEN [tag |-> "panic"]
    ELSE IF \E k \in DOMAIN d : HandshakeArm(k, d[k]) = "Err" THEN [tag |-> "Err"]
    ELSE [tag |-> "Ok",
          v |-> [tag |-> "Handshake",
                 inner |-> IF "m" \in DOMAIN d
                           THEN [n \in DOMAIN d["m"].v |-> d["m"].v[n].v]
                           ELSE <<>>,
                 port |-> OptOf(d, "p", LAMBDA o : o.v),
                 client |-> OptOf(d, "v", LAMBDA o : o.v),
                 ext_ip |-> OptOf(d, "yourip", LAMBDA o : o.v),
                 ipv4 |-> OptOf(d, "ipv4", LAMBDA o : SubSeq(o.v, 1, 4)),
                 ipv6 |-> OptOf(d, "ipv6", LAMBDA o : SubSeq(o.v, 1, 16)),
                 reqq |-> OptOf(d, "reqq", LAMBDA o : o.v)]]

ExtNames == {"ut_metadata", "ut_pex"}

\* the maps of a handshake: names to ids
ExtMaps == UNION {[names -> 1..MaxExtId] : names \in SUBSET ExtNames}

ExtHandshakes ==
    { h \in [tag : {"Handshake"}, inner : ExtMaps, port : {<<>>, <<6881>>},
             client : {<<>>, <<<<99>>>>}, ext_ip : {<<>>, <<<<1, 2, 3, 4>>>>},
             ipv4 : {<<>>, <<<<10, 0, 0, 1>>>>}, ipv6 : {<<>>},
             reqq : {<<>>, <<5>>, <<250>>}] :
        h.client = <<>> \/ h.ext_ip = <<>> }

\* msg_type: Request = 0, Data = 1, Reject = 2; Data comes with a total size
ExtMetadata ==
    { e \in [tag : {"Metadata"}, msg_type : 0..2, piece : 0..1,
             total_size : {<<>>, <<8>>}, payload : {<<>>, <<<<120>>>>}] :
        (e.msg_type = 1) <=> (e.total_size /= <<>>) }

ExtMessages == ExtHandshakes \cup ExtMetadata

InitExt ==
    /\ codecIn \in ExtMessages
    /\ codecOut = [tag |-> "none"]

\* x.to_bencode() and Message::from_bencode of what it wrote
ExtRoundTrip ==
    /\ codecOut.tag = "none"
    /\ LET enc == ExtToBencode(codecIn)
       IN  codecOut' = [tag |-> "done", enc |-> enc,
                        dec |-> IF enc.tag = "Ok" THEN ExtFromBencode(enc.v)
                                ELSE [tag |-> "none"]]
    /\ UNCHANGED codecIn
    /\ UNCHANGED notCodec

NextExt == ExtRoundTrip

InitSpecExt == IdleFirst /\ IdlePool /\ IdleDl /\ InitExt /\ IdleLast

SpecExt == InitSpecExt /\ [][NextExt]_vars

(***************************************************************************)
(* KRPC messages and their bencoding (krpc.rs).  Dictionaries, byte        *)
(* strings and integers are the objects of the extension messages above;   *)
(* a list is [t |-> "list", v |-> <<...>>].  A Rust String is the sequence *)
(* of its UTF-8 bytes.  The dictionaries decoded here are the ones the     *)
(* encoder wrote, and the encoder writes its keys sorted, so equal         *)
(* dictionaries stand for equal bytes.                                     *)
(***************************************************************************)
CompactNodeLen == 26

MaxKrpcNodes == 2

In(b, lo, hi) == lo <= b /\ b <= hi

\* String::from_utf8 accepts the bytes
RECURSIVE ValidUtf8(_)
ValidUtf8(b) ==
    IF b = <<>> THEN TRUE
    ELSE LET n == Len(b)
             c(i) == i <= n /\ In(b[i], 128, 191)
         IN  CASE b[1] < 128 -> ValidUtf8(Tail(b))
               [] In(b[1], 194, 223) -> c(2) /\ ValidUtf8(Drop(b, 2))
               [] b[1] = 224 ->
                     n >= 2 /\ In(b[2], 160, 191) /\ c(3) /\ ValidUtf8(Drop(b, 3))
               [] In(b[1], 225, 236) \/ In(b[1], 238, 239) ->
                     c(2) /\ c(3) /\ ValidUtf8(Drop(b, 3))
               [] b[1] = 237 ->
                     n >= 2 /\ In(b[2], 128, 159) /\ c(3) /\ ValidUtf8(Drop(b, 3))
               [] b[1] = 240 ->
                     n >= 2 /\ In(b[2], 144, 191) /\ c(3) /\ c(4)
                         /\ ValidUtf8(Drop(b, 4))
               [] In(b[1], 241, 243) ->
                     c(2) /\ c(3) /\ c(4) /\ ValidUtf8(Drop(b, 4))
               [] b[1] = 244 ->
                     n >= 2 /\ In(b[2], 128, 143) /\ c(3) /\ c(4)
                         /\ ValidUtf8(Drop(b, 4))
               [] OTHER -> FALSE

\* impl From<&CompactNode> for Vec<u8>
CompactNodeBytes(n) == n.id \o n.ip \o <<n.port \div 256, n.port % 256>>

\* impl From<Vec<u8>> for CompactNode, of 26 bytes
CompactNodeFrom(v) ==
    [id |-> SubSeq(v, 1, 20), ip |-> SubSeq(v, 21, 24), port |-> 256 * v[25] + v[26]]

RECURSIVE Flatten(_)
Flatten(ss) == IF ss = <<>> THEN <<>> ELSE Head(ss) \o Flatten(Tail(ss))

BList(l) == [t |-> "list", v |-> l]

Present(opt) == {1} \cap {Len(opt)}

\* ToBencode for Arguments: "panic" where a field the method needs is None
ArgumentsToBencode(a) ==
    LET need == CASE a.method = "ping" -> {}
                  [] a.method = "find_node" -> {"target"}
                  [] a.method = "get_peers" -> {"info_hash"}
                  [] OTHER -> {"implied_port", "info_hash", "port", "token"}
    IN  IF \E k \in need : a[k] = <<>> THEN [tag |-> "panic"]
        ELSE [tag |-> "Ok",
              v |-> [t |-> "dict",
                     v |-> [k \in {"id"} \cup need |->
                              CASE k = "id" -> BBytes(a.id)
                                [] k = "port" -> BInt(a.port[1])
                                [] k = "implied_port" ->
                                      BInt(IF a.implied_port[1] THEN 1 ELSE 0)
                                [] OTHER -> BBytes(a[k][1])]]]

\* ToBencode for Values
ValuesToBencode(r) ==
    [tag |-> "Ok",
     v |-> [t |-> "dict",
            v |-> DictOf(
                { <<"id", BBytes(r.id)>> }
                \cup { <<"nodes",
                         BBytes(Flatten([i \in DOMAIN r.nodes[1] |->
                                            CompactNodeBytes(r.nodes[1][i])]))>> :
                          x \in Present(r.nodes) }
                \cup { <<"values",
                         BList([i \in DOMAIN r.values[1] |->
                                   BBytes(CompactNodeBytes(r.values[1][i]))])>> :
                          x \in Present(r.values) }
                \cup { <<"token", BBytes(r.token[1])>> : x \in Present(r.token) })]]

\* ToBencode for Error
ErrorToBencode(e) ==
    [tag |-> "Ok", v |-> BList(<<BInt(e.kind), BBytes(e.description)>>)]

\* ToBencode for ExtMessage
KrpcToBencode(m) ==
    LET y == CASE m.inner.tag = "Query" -> "q"
               [] m.inner.tag = "Response" -> "r"
               [] OTHER -> "e"
        key == IF y = "q" THEN "a" ELSE y
        body == CASE y = "q" -> ArgumentsToBencode(m.inner)
                  [] y = "r" -> ValuesToBencode(m.inner)
                  [] OTHER -> ErrorToBencode(m.inner)
    IN  IF body.tag /= "Ok" THEN body
        ELSE [tag |-> "Ok",
              v |-> DictOf({ <<"y", y>>, <<"t", BBytes(m.transaction_id)>>,
                             <<key, body.v>> }
                           \cup { <<"q", m.inner.method>> : x \in {1} \cap
                                     {IF y = "q" THEN 1 ELSE 0} })]

\* String::decode_bencode_object
StringOf(o) == o.t = "bytes" /\ ValidUtf8(o.v)

\* a String that converts to [u8; 20]
IdOf(o) == StringOf(o) /\ Len(o.v) = HashLen

\* the arm of one key of the arguments of a query: "Ok", "Err" or "panic"
ArgumentsArm(k, o) ==
    CASE k \in {"id", "target", "info_hash"} -> IF IdOf(o) THEN "Ok" ELSE "Err"
      [] k \in {"implied_port", "port"} -> IF o.t = "int" THEN "Ok" ELSE "Err"
      [] k = "token" -> IF StringOf(o) THEN "Ok" ELSE "Err"
      [] OTHER -> "panic"

\* the arm of one key of the values of a response
ValuesArm(k, o) ==
    CASE k = "id" -> IF IdOf(o) THEN "Ok" ELSE "Err"
      [] k \in {"nodes", "token"} -> IF StringOf(o) THEN "Ok" ELSE "Err"
      [] k = "values" ->
            IF o.t /= "list" \/ \E i \in DOMAIN o.v : ~StringOf(o.v[i]) THEN "Err"
            ELSE IF \E i \in DOMAIN o.v : Len(o.v[i].v) /= CompactNodeLen
            THEN "panic" ELSE "Ok"
      [] OTHER -> "Ok"

Arms(d, Arm(_, _)) ==
    IF \E k \in DOMAIN d : Arm(k, d[k]) = "panic" THEN "panic"
    ELSE IF \E k \in DOMAIN d : Arm(k, d[k]) = "Err" THEN "Err"
    ELSE "Ok"

\* the nodes of a `nodes` string: chunks_exact(26)
NodesOf(b) ==
    [i \in 1..(Len(b) \div CompactNodeLen) |->
        CompactNodeFrom(SubSeq(b, CompactNodeLen * (i - 1) + 1, CompactNodeLen * i))]

\* ExtMessage::from_bencode of a dictionary written by KrpcToBencode
KrpcFromBencode(d) ==
    IF ~StringOf(d["t"]) THEN [tag |-> "Err"]
    ELSE CASE d["y"] = "q" ->
            LET a == d["a"].v
                opt(k, f(_)) == OptOf(a, k, f)
            IN  IF Arms(a, ArgumentsArm) /= "Ok" THEN [tag |-> Arms(a, ArgumentsArm)]
                ELSE [tag |-> "Ok",
                      v |-> [transaction_id |-> d["t"].v,
                             inner |->
                               [tag |-> "Query", method |-> d["q"],
                                id |-> IF "id" \in DOMAIN a THEN a["id"].v
                                       ELSE Rep(0, HashLen),
                                target |-> opt("target", LAMBDA o : o.v),
                                info_hash |-> opt("info_hash", LAMBDA o : o.v),
                                port |-> opt("port", LAMBDA o : o.v),
                                implied_port |->
                                    opt("implied_port", LAMBDA o : o.v /= 0),
                                token |-> opt("token", LAMBDA o : o.v)]]]
          [] d["y"] = "r" ->
            LET r == d["r"].v
                opt(k, f(_)) == OptOf(r, k, f)
            IN  IF Arms(r, ValuesArm) /= "Ok" THEN [tag |-> Arms(r, ValuesArm)]
                ELSE [tag |-> "Ok",
                      v |-> [transaction_id |-> d["t"].v,
                             inner |->
                               [tag |-> "Response",
                                id |-> IF "id" \in DOMAIN r THEN r["id"].v
                                       ELSE Rep(0, HashLen),
                                nodes |-> opt("nodes", LAMBDA o : NodesOf(o.v)),
                                values |->
                                    opt("values",
                                        LAMBDA o : [i \in DOMAIN o.v |->
                                                       CompactNodeFrom(o.v[i].v)]),
                                token |-> opt("token", LAMBDA o : o.v)]]]
          [] OTHER ->
            LET e == d["e"].v
            IN  IF Len(e) < 2 THEN [tag |-> "panic"]
                ELSE IF e[1].t /= "int" THEN [tag |-> "Err"]
                ELSE IF e[1].v \notin 201..204 THEN [tag |-> "panic"]
                ELSE IF ~StringOf(e[2]) THEN [tag |-> "Err"]
                ELSE [tag |-> "Ok",
                      v |-> [transaction_id |-> d["t"].v,
                             inner |-> [tag |-> "Err", kind |-> e[1].v,
                                        description |-> e[2].v]]]

\* node ids: one of ASCII letters, one of bytes that are no UTF-8 text
KrpcIds == { Rep(97, HashLen), Rep(255, HashLen) }

\* contacts: 1.2.3.4:6881, and one whose six bytes are ASCII digits
KrpcNodes ==
    { [id |-> Rep(97, HashLen), ip |-> <<1, 2, 3, 4>>, port |-> 6881],
      [id |-> Rep(98, HashLen), ip |-> <<49, 50, 51, 52>>, port |-> 13622] }

KrpcQueries ==
    [tag : {"Query"}, method : {"ping"}, id : KrpcIds, target : {<<>>},
     info_hash : {<<>>}, port : {<<>>}, implied_port : {<<>>}, token : {<<>>}]
    \cup [tag : {"Query"}, method : {"find_node"}, id : KrpcIds,
          target : {<<id>> : id \in KrpcIds},
          info_hash : {<<>>}, port : {<<>>}, implied_port : {<<>>}, token : {<<>>}]
    \cup [tag : {"Query"}, method : {"get_peers"}, id : KrpcIds, target : {<<>>},
          info_hash : {<<id>> : id \in KrpcIds},
          port : {<<>>}, implied_port : {<<>>}, token : {<<>>}]
    \cup [tag : {"Query"}, method : {"announce_peer"}, id : KrpcIds,
          target : {<<>>}, info_hash : {<<id>> : id \in KrpcIds},
          port : {<<6881>>}, implied_port : {<<TRUE>>, <<FALSE>>},
          token : {<<<<97, 98>>>>}]

KrpcResponses ==
    [tag : {"Response"}, id : KrpcIds,
     nodes : {<<>>} \cup {<<l>> : l \in SeqsUpTo(KrpcNodes, MaxKrpcNodes)},
     values : {<<>>} \cup {<<l>> : l \in SeqsUpTo(KrpcNodes, 1)},
     token : {<<>>, <<<<97, 98>>>>}]

KrpcErrors ==
    [tag : {"Err"}, kind : 201..204, description : {<<>>, <<97>>}]

KrpcMessages ==
    [transaction_id : {<<97, 97>>},
     inner : KrpcQueries \cup KrpcResponses \cup KrpcErrors]

InitKrpc ==
    /\ codecIn \in KrpcMessages
    /\ codecOut = [tag |-> "none"]

\* the message is encoded, what was written is decoded, and what was
\* decoded is encoded again
KrpcRoundTrip ==
    /\ codecOut.tag = "none"
    /\ LET enc == KrpcToBencode(codecIn)
           dec == IF enc.tag = "Ok" THEN KrpcFromBencode(enc.v) ELSE [tag |-> "none"]
       IN  codecOut' = [tag |-> "done", enc |-> enc, dec |-> dec,
                        again |-> IF dec.tag = "Ok" THEN KrpcToBencode(dec.v)
                                  ELSE [tag |-> "none"]]
    /\ UNCHANGED codecIn
    /\ UNCHANGED notCodec

NextKrpc == KrpcRoundTrip

InitSpecKrpc == IdleFirst /\ IdlePool /\ IdleDl /\ InitKrpc /\ IdleLast

SpecKrpc == InitSpecKrpc /\ [][NextKrpc]_vars

(***************************************************************************)
(* Claims about the frame reader and the reader task (SpecFrame).          *)
(***************************************************************************)
\* the buffer holds a length prefix and fewer payload bytes than it announces
PartialFrame(buf) ==
    /\ Len(buf) >= 4
    /\ Len(buf) < 4 + FromBeBytes(Take(buf, 4))

\* the buffer holds a length prefix and all the payload bytes it announces
CompleteFrame(buf) ==
    /\ Len(buf) >= 4
    /\ Len(buf) >= 4 + FromBeBytes(Take(buf, 4))

\* C1: while the buffer of a Message reader holds the 4-byte length prefix
\* and fewer than `length` payload bytes, read_frame returns nothing (no
\* frame, no error) out of parse_frame: it goes on to read; and a frame is
\* returned only from a buffer that holds all its payload bytes.
C1_RetriedUntilComplete ==
    (ret.kind = "Message" /\ ret.tag # "pending" /\ ~ret.eof)
        => /\ ~PartialFrame(ret.pre)
           /\ (ret.tag = "some" => CompleteFrame(ret.pre))

\* C2: read_frame returns None only after the socket reported end of stream
\* with the buffer empty; end of stream with bytes left in the buffer gives
\* BrokenPipe; and a frame is never returned from a partial frame.
C2_NoneOnlyAtCleanEof ==
    /\ (ret.tag = "none" => (ret.eof /\ ret.pre = <<>>))
    /\ ((ret.eof /\ ret.pre # <<>>) => ret.tag = "BrokenPipe")
    /\ (ret.tag = "some" => (~ret.eof /\ Check(ret.kind, ret.pre).ok
                                /\ Parse(ret.kind, ret.pre).tag = "ok"))

\* the Message reader met the end of the stream inside a length prefix
C2_Witness ==
    /\ ret.kind = "Message"
    /\ ret.eof
    /\ ret.pre # <<>>
    /\ ret.tag = "BrokenPipe"

\* C3: a message is forwarded only after one complete 68-byte handshake was
\* taken out of the stream; a listen that reaches its message loop without a
\* handshake does so on an ended, empty stream, and forwards nothing.
C3_HandshakeFirst ==
    /\ (forwarded # <<>> => (hsFrame # <<>> /\ consumed >= HandshakeLen))
    /\ (hsFrame = <<>> => consumed = 0)
    /\ ((hsFrame = <<>> /\ pc \in {"msg_parse", "msg_read", "done"})
            => (sock = <<>> /\ buffer = <<>>))

\* a message was forwarded, the handshake before it
C3_Witness ==
    /\ hsFrame # <<>>
    /\ Len(forwarded) >= 1
    /\ consumed > HandshakeLen

(***************************************************************************)
(* Claims about the connections (Spec, SpecPeers).                         *)
(***************************************************************************)
IsPrefix(a, b) == Len(a) <= Len(b) /\ SubSeq(b, 1, Len(a)) = a

LastOf(log, ids) ==
    LET at == { i \in 1..Len(log) : log[i].id \in ids } IN
    IF at = {} THEN "none"
    ELSE log[CHOOSE i \in at : \A j \in at : j <= i].id

\* the last message handle received, [id |-> "none"] before the first
LastMsg(p) == IF recvLog[p] = <<>> THEN [id |-> "none"] ELSE recvLog[p][Len(recvLog[p])]

\* C5: the peer-choking flag (State.choked, the one Choke and Unchoke write)
\* is true exactly when the last choke/unchoke received was choke, true
\* before any; the peer-interested flag (State.peer_interested) is true
\* exactly when the last interested/not-interested received was interested,
\* false before any; and these four messages leave the local-facing flags
\* (State.peer_choked, State.interested), the remote bitfield and the DHT
\* port as they were.
C5_FlagsFollowLast ==
    LET p == "A"
        lc == LastOf(recvLog[p], {"Choke", "Unchoke"})
        li == LastOf(recvLog[p], {"Interested", "Uninterested"})
    IN /\ conn[p].choked = (lc \in {"Choke", "none"})
       /\ conn[p].peer_interested = (li = "Interested")
       /\ LastMsg(p).id \in {"Choke", "Unchoke", "Interested", "Uninterested"}
             => /\ conn[p].peer_choked = prev[p].peer_choked
                /\ conn[p].interested = prev[p].interested
                /\ conn[p].remote_bitfield = prev[p].remote_bitfield
                /\ conn[p].dht_port = prev[p].dht_port

\* bit i of a packed bitfield, piece 0 the most significant bit of byte 0
WireBit(bf, i) ==
    IF (i \div 8) + 1 > Len(bf) THEN 0 ELSE BitOf(bf[(i \div 8) + 1], 7 - (i % 8))

\* C6: after have(i) was handled, i a piece index of the torrent, bit i of
\* the remote bitfield is set and every other bit is as it was before.
C6_HaveSetsBit ==
    LET p == "A"
        m == LastMsg(p)
    IN (m.id = "Have" /\ m.idx < NumPieces /\ hd[p] # "panic")
          => /\ WireBit(conn[p].remote_bitfield, m.idx) = 1
             /\ Len(conn[p].remote_bitfield) = Len(prev[p].remote_bitfield)
             /\ \A j \in 0..(8 * Len(prev[p].remote_bitfield) - 1) :
                   j # m.idx => WireBit(conn[p].remote_bitfield, j)
                                  = WireBit(prev[p].remote_bitfield, j)

\* C7: a bitfield received as the first message replaces the remote
\* bitfield; a bitfield received after another message closes the connection
\* and leaves the remote bitfield as it was.
C7_BitfieldOnlyFirst ==
    LET p == "A"
        m == LastMsg(p)
    IN m.id = "Bitfield"
          => IF Len(recvLog[p]) = 1
             THEN conn[p].remote_bitfield = m.v
             ELSE /\ hd[p] \in {"panic", "done"}
                  /\ conn[p].remote_bitfield = prev[p].remote_bitfield

(***************************************************************************)
(* Claims about the piece map and the writer (SpecMap).                    *)
(***************************************************************************)
\* the availability the selection uses: the size of the owner list
Availability(m, i) == Len(m[i + 1])

\* the peers that named piece i in a have or in their bitfield
Holders(i) == { p \in MapPeers : i \in announced[p] }

\* C8: while the listener of the piece map runs, the availability of every
\* piece is the number of distinct peers that announced it, whatever have
\* and bitfield messages arrived, a repeated have(i) of one peer included.
C8_AvailabilityIsHolders ==
    mapTask = "run" =>
        \A i \in 0..(MapPieces - 1) :
            Availability(inner, i) = Cardinality(Holders(i))

\* the pieces of least availability among those with at least one owner
Rarest(m) ==
    LET owned == { i \in 0..(Len(m) - 1) : Availability(m, i) >= 1 }
    IN { i \in owned : \A j \in owned : Availability(m, i) <= Availability(m, j) }

\* C9: the piece request_piece selects has the least availability among the
\* pieces some peer owns, the lowest index among those, and every request
\* goes to an owner of that piece (owners 1110, 1100, 1100 select piece 2).
C9_RarestFirst ==
    lastReq.tag = "some" =>
        /\ lastReq.piece \in Rarest(lastReq.map)
        /\ \A j \in Rarest(lastReq.map) : lastReq.piece <= j
        /\ \A k \in 1..Len(lastReq.v) :
              \E o \in 1..Len(lastReq.map[lastReq.piece + 1]) :
                  lastReq.map[lastReq.piece + 1][o] = lastReq.v[k].peer

\* C10: at most 4 requests written to one peer are unanswered at any time;
\* one call of request_piece writes at most 4 requests to the same peer.
C10_AtMostFourOutstanding == \A p \in MapPeers : outstanding[p] <= 4

(***************************************************************************)
(* Claims about the piece store (SpecStore, SpecLayout).                    *)
(***************************************************************************)
\* the piece the last call was about, before the call and after it
PieceBefore == pwRet.was.inner[pwRet.index + 1]

PieceAfter == pw.inner[pwRet.index + 1]

\* the last call was op on an existing piece
CalledOn(op) == pwRet.op = op /\ pwRet.index < Len(pw.inner)

\* the piece held all its blocks and its bytes before the last call
WasWhole == PieceBefore.inner /= <<>> /\ Complete(PieceBefore)

WasValid == Sha1(PieceBefore.inner[1]) = pw.hashes[pwRet.index + 1]

C12_WriteAllocatesAndCompletes ==
    /\ (/\ CalledOn("write")
        /\ PieceBefore = PieceNew(Len(PieceBefore.written))
        /\ pwRet.begin + Len(pwRet.block) <= pw.piece_len) =>
           /\ pwRet.tag = "Ok"
           /\ PieceAfter.inner /= <<>>
           /\ SubSeq(PieceAfter.inner[1], pwRet.begin + 1,
                     pwRet.begin + Len(pwRet.block)) = pwRet.block
           /\ (Len(pwRet.block) = pw.piece_len => Complete(PieceAfter))
    /\ (pwRet.op = "none" /\ pw /= <<>>) =>
           \A k \in 1..Len(pw.inner) :
               pw.inner[k] = PieceNew(Len(pw.inner[k].written)) => ~Complete(pw.inner[k])

GlobalOffset(files, f) == SumTo(files, f)

\* C14: the file flush_piece chooses for a piece is the file whose byte range
\* holds the first byte of the piece, and the position in it is the distance
\* of that byte from the start of the file.
C14_FileOfPiece ==
    pwRet.op = "target" =>
        LET files == pw.mode.files
            off == pw.piece_len * pwRet.index
        IN /\ pwRet.tag = "file"
           /\ GlobalOffset(files, pwRet.file) <= off
           /\ off < GlobalOffset(files, pwRet.file) + files[pwRet.file + 1]
           /\ pwRet.pos = off - GlobalOffset(files, pwRet.file)

IsReplyTo(t, tid, d) == d.src = t /\ d.tid = tid

\* C16: a dispatch ends, with a result or with an error, only on a datagram
\* that carries the transaction id of its request and comes from the tracker
\* the request went to, so that every connection id the Router records for a
\* tracker, and every announce result it takes, is that tracker's answer
C16_ReplyMatchesRequest ==
    /\ \A t \in TrackerSet :
           sess[t].got # NoDatagram => IsReplyTo(t, sess[t].tid, sess[t].got)
    /\ \A i \in DOMAIN router.trackers :
           /\ router.trackers[i].cid = CidOf(router.trackers[i].addr)
           /\ IsReplyTo(router.trackers[i].addr, router.trackers[i].tid,
                        router.trackers[i].got)
    /\ router.tag = "Announced" =>
           IsReplyTo(router.via.addr, router.via.tid, router.via.got)

\* C17: the wait after the n-th send of a request (n from 0) is 15 * 2^n
\* seconds, a request is sent at most 8 times, and a dispatch gives up with
\* DeadTrackers only after 8 sends went unanswered
C17_BackoffDoubles ==
    \A t \in TrackerSet :
        /\ sess[t].sent <= 8
        /\ sess[t].phase = "wait" => sess[t].wait = 15 * 2 ^ (sess[t].sent - 1)
        /\ (sess[t].phase = "err" /\ sess[t].why = "DeadTrackers"
               /\ sess[t].got = NoDatagram) => sess[t].sent = 8

\* C18: an announce is sent only with a connection id that was obtained at
\* most 60 seconds before the send
C18_CidNotOlderThan60 ==
    \A t \in TrackerSet :
        (sess[t].kind = "announce" /\ sess[t].sent > 0) =>
            sess[t].sentAt - sess[t].at <= 60

(***************************************************************************)
(* Claims about the HTTP tracker sessions (SpecHttp).                      *)
(***************************************************************************)
\* the number of peer lists a session has sent into the peer channel
Emitted(s) == Cardinality({ i \in DOMAIN peerChan : peerChan[i].from = s })

\* C19: a session whose first announce succeeded has sent one announce more
\* than intervals have elapsed since, and has emitted one peer list for each
\* announce
C19_ReannouncesEveryInterval ==
    \A s \in HttpSessions :
        (httpSess[s].pc = "sleeping" /\ ~httpSess[s].resp.failure_reason) =>
            /\ httpSess[s].announces = httpSess[s].slept + 1
            /\ Emitted(s) = httpSess[s].announces

\* C20: a session that got a response with a failure reason has ended, and
\* has sent no peer list into the peer channel
C20_FailureReasonEndsSession ==
    \A s \in HttpSessions :
        httpSess[s].resp.failure_reason =>
            /\ httpSess[s].pc \in {"returned", "joined"}
            /\ Emitted(s) = 0

(***************************************************************************)
(* Claims about the peer lists on their way into connections (SpecPool).   *)
(***************************************************************************)
\* no element occurs twice in the sequence
NoRepeat(q) == \A i, j \in DOMAIN q : q[i] = q[j] => i = j

\* C21: no endpoint is handed to the connecting side twice: the endpoints a
\* handshake was started for, followed by those waiting for one, hold every
\* endpoint at most once
C21_EndpointsOnce == NoRepeat(attempts \o connQ)

(***************************************************************************)
(* Claims about the remote's handshake and about frame lengths (SpecFrame).*)
(***************************************************************************)
\* C23: when the remote's handshake carries another info hash than the
\* torrent's, no message of that peer is taken from the stream afterwards
C23_MismatchDrops ==
    (hsFrame # <<>> /\ hsFrame[1].hash # InfoHash) => forwarded = <<>>

\* the cap on a frame's length the framer contract names: 1 MiB
FrameCap == 1024 * 1024

\* the buffer starts with a length prefix beyond the cap
OverCap(buf) == Len(buf) >= 4 /\ FromBeBytes(Take(buf, 4)) > FrameCap

C25_KeepAliveConsumed ==
    (/\ ret.kind = "Message"
     /\ ret.tag # "pending"
     /\ ~ret.eof
     /\ Len(ret.pre) >= 4
     /\ Take(ret.pre, 4) = <<0, 0, 0, 0>>) =>
        (ret.tag \notin {"panic", "Incomplete"} /\ pc \notin {"panic", "err"})

(***************************************************************************)
(* Malformed input (SpecHttp).                                             *)
(***************************************************************************)
\* C26: a response body that is not bencode is an error of the session that
\* received it and of no other: no session is stopped because another one
\* failed, and the run of the tracker sessions does not fail
C26_MalformedInputConfined ==
    /\ \A s \in HttpSessions : httpSess[s].pc # "aborted"
    /\ joined # "failed"

(***************************************************************************)
(* Claims about the end of a connection (FairSpecClose).                   *)
(***************************************************************************)
\* the reader task of p has ended
ReaderEnded(p) == rd[p] \in {"done", "err", "panic"}

\* the handler of p has ended and the Connection, with the write half of the
\* socket, is dropped
Closed(p) == hd[p] \in {"done", "panic", "dropped"}

DlHandled == dlLast[Len(dlLast)]

\* the index, the begin and the block of a piece frame on the wire
PieceIndexOf(f) == FromBeBytes(SubSeq(f, 6, 9))
PieceBeginOf(f) == FromBeBytes(SubSeq(f, 10, 13))
PieceBlockOf(f) == Drop(f, 13)

\* C27: after a piece message with an index below the number of pieces and
\* a block that ends inside the piece, the block's bytes stand at offset
\* begin of that piece, every other byte of the buffer is as before, and the
\* task that handled the message runs on
C27_BlockStoredAtOffset ==
    (/\ dlLast # <<>>
     /\ DlHandled.frame[5] = 7
     /\ PieceIndexOf(DlHandled.frame) < DlPieces
     /\ PieceBeginOf(DlHandled.frame) + Len(PieceBlockOf(DlHandled.frame)) <= DlPieceLen) =>
        LET f == DlHandled.frame
            block == PieceBlockOf(f)
            begin == PieceBeginOf(f)
        IN /\ dlTask \in {"run", "done"}
           /\ wbuf.inner =
                 [DlHandled.was EXCEPT ![PieceIndexOf(f) + 1] =
                     [i \in 1..Len(@) |->
                         IF i > begin /\ i <= begin + Len(block)
                         THEN block[i - begin] ELSE @[i]]]

(***************************************************************************)
(* Claims about encoding and decoding of peer messages (SpecCodec).        *)
(***************************************************************************)
\* C28: every peer wire message comes back from parse as it went into
\* to_request, and the length prefix to_request writes is the number of
\* bytes that follow it
C28_RoundTrip ==
    /\ codecOut # <<>> =>
          /\ codecOut[1].tag = "ok"
          /\ FromBeBytes(Take(codecOut[1].bytes, 4)) = Len(codecOut[1].bytes) - 4
    /\ Len(codecOut) = 2 =>
          /\ codecOut[2].tag = "ok"
          /\ codecOut[2].frame = codecIn[1]

(***************************************************************************)
(* Claims about frames back to back (SpecBackToBack).                      *)
(***************************************************************************)
\* the frames successive read_frame calls return from a buffer that holds buf
RECURSIVE ReadAll(_)
ReadAll(buf) ==
    LET r == ParseFrame("Message", buf) IN
    IF r.tag = "some" THEN <<r.frame>> \o ReadAll(r.buf) ELSE <<>>

\* C29: a read_frame call that returns a message returns the first frame of
\* the buffer and removes the 4 + length bytes of that frame and no other,
\* so frames come out in the order of the wire; the bytes 00 00 00 01 00,
\* 00 00 00 01 01, 00 00 00 05 04 00 00 00 07 come out as Choke, Unchoke,
\* Have(7)
C29_BackToBackInOrder ==
    /\ [][Len(forwarded') = Len(forwarded) + 1 =>
            LET n == FromBeBytes(Take(buffer, 4)) IN
            /\ Len(buffer) >= 4 + n
            /\ forwarded' = Append(forwarded, MessageParse(Take(buffer, 4 + n)).frame)
            /\ buffer' = Drop(buffer, 4 + n)
            /\ consumed' = consumed + 4 + n
            /\ sock' = sock]_vars
    /\ [](ReadAll(<<0, 0, 0, 1, 0, 0, 0, 0, 1, 1, 0, 0, 0, 5, 4, 0, 0, 0, 7>>) =
             << [id |-> "Choke"], [id |-> "Unchoke"], [id |-> "Have", idx |-> 7] >>)

\* the three frames were in the buffer together, after the handshake, and
\* three calls have returned them
C29_Witness ==
    /\ forwarded = << [id |-> "Choke"], [id |-> "Unchoke"], [id |-> "Have", idx |-> 7] >>
    /\ consumed = HandshakeLen + 19
    /\ ret.pre = <<0, 0, 0, 5, 4, 0, 0, 0, 7>>
    /\ buffer = <<>>

(***************************************************************************)
(* Claims about the tracker requests on the wire (SpecUdpCodec).           *)
(***************************************************************************)
\* i32::from_be_bytes
I32FromBeBytes(s) ==
    IF s[1] >= 128
    THEN (FromBeBytes(<<s[1] - 128>> \o Drop(s, 1)) - 2147483647) - 1
    ELSE FromBeBytes(s)

\* i64::from_be_bytes, as the pair of halves
I64FromBeBytes(s) == [hi |-> FromBeBytes(Take(s, 4)), lo |-> FromBeBytes(Drop(s, 4))]

\* the fields of an announce request read from its 98 bytes by the layout
\* cid | action | tid | info_hash | peer_id | downloaded | left | uploaded |
\* event | ip | key | num_want | port
DecodeAnnounce(b) ==
    [kind |-> "Announce",
     cid |-> I64FromBeBytes(SubSeq(b, 1, 8)),
     action |-> I32FromBeBytes(SubSeq(b, 9, 12)),
     tid |-> I32FromBeBytes(SubSeq(b, 13, 16)),
     hash |-> SubSeq(b, 17, 36),
     peer_id |-> SubSeq(b, 37, 56),
     downloaded |-> I64FromBeBytes(SubSeq(b, 57, 64)),
     left |-> I64FromBeBytes(SubSeq(b, 65, 72)),
     uploaded |-> I64FromBeBytes(SubSeq(b, 73, 80)),
     event |-> I32FromBeBytes(SubSeq(b, 81, 84)) + 1,
     socket |-> [ip |-> SubSeq(b, 85, 88), port |-> FromBeBytes(SubSeq(b, 97, 98))],
     key |-> FromBeBytes(SubSeq(b, 89, 92)),
     num_want |-> I32FromBeBytes(SubSeq(b, 93, 96)),
     extensions |-> 0]

\* the fields of a connect request read from its 16 bytes
DecodeConnect(b) ==
    [kind |-> "Connect",
     cid |-> I64FromBeBytes(SubSeq(b, 1, 8)),
     action |-> I32FromBeBytes(SubSeq(b, 9, 12)),
     tid |-> I32FromBeBytes(SubSeq(b, 13, 16))]

\* C30: an announce request is written as 98 bytes from which the layout
\* gives back every field of the request, the event, the address and the
\* port among them; a connect request is written as 16 bytes that give back
\* the protocol id, the action and the transaction id
C30_AnnounceLayout ==
    codecOut # <<>> =>
        LET b == codecOut[1].bytes IN
        IF codecIn[1].kind = "Announce"
        THEN Len(b) = 98 /\ DecodeAnnounce(b) = codecIn[1]
        ELSE Len(b) = 16 /\ DecodeConnect(b) = codecIn[1]

(***************************************************************************)
(* More claims about the piece map (SpecMap).                              *)
(***************************************************************************)
\* C35: a call of request_piece returns for every piece map, the one in
\* which no piece has between one and three owners included: it is never
\* left looping with the read lock of the map held
C35_RequestPieceReturns == reqTask /= "spin"

\* C39: the requests of one call of request_piece all name the piece that
\* was selected, begin at a multiple of the block size with a length of at
\* most one block, and no two of them have the same index and begin
C39_RequestsAddressPiece ==
    lastReq.tag = "some" =>
        /\ \A k \in DOMAIN lastReq.v :
              /\ lastReq.v[k].index = lastReq.piece
              /\ lastReq.v[k].begin % BLOCK_SIZE = 0
              /\ lastReq.v[k].length <= BLOCK_SIZE
        /\ \A j, k \in DOMAIN lastReq.v :
              (lastReq.v[j].index = lastReq.v[k].index
                  /\ lastReq.v[j].begin = lastReq.v[k].begin) => j = k

(***************************************************************************)
(* More claims about the UDP tracker router (SpecUdp).                     *)
(***************************************************************************)
\* C36: the router is in the Connected state only with at least one pair of
\* a tracker address and a connection id
C36_ConnectedHasTracker == router.tag = "Connected" => router.trackers /= <<>>

WordWithin(x, y) == WordAnd(x, y) = x

\* bitfield a is contained in bitfield b, word by word
BitsWithin(a, b) ==
    /\ Len(a) <= Len(b)
    /\ \A i \in 1..Len(a) : WordWithin(a[i], b[i])

\* C38: an update for a peer that already has a stored bitfield never clears
\* a bit: afterwards the stored bitfield contains every bit it had before
\* and the bits of the update, and the bitfields of the other peers are
\* unchanged.
C38_UpdateKeepsBits ==
    (dmLast.tag = "some" /\ dmLast.peer \in DOMAIN dmLast.before) =>
        /\ BitsWithin(dmLast.before[dmLast.peer], bitfieldMap[dmLast.peer])
        /\ BitsWithin(dmLast.bitfield, bitfieldMap[dmLast.peer])
        /\ \A p \in DOMAIN dmLast.before :
              p /= dmLast.peer => bitfieldMap[p] = dmLast.before[p]

\* C40: the assertions on equal lengths in `&=` and `^` never fail while
\* DataManager::listen runs.
C40_AssertsNeverFail == dmTask /= "panic"


(***************************************************************************)
(* Claims about the shutdown of the torrent (FairSpecStop).                *)
(***************************************************************************)
\* C34: after shutdown is signalled every tracker session eventually exits,
\* and an HTTP session that has announced and whose task ends after the
\* signal has sent an announce with event=stopped by then.
C34_ShutdownEndsTasks ==
    /\ shutdown ~> (\A s \in HttpSessions : SessionExited(s))
    /\ [][\A s \in HttpSessions :
            (shutdown /\ ~SessionExited(s) /\ SessionExited(s)'
                /\ httpSess'[s].announces > 0) =>
                "stopped" \in AnnouncedEvents(s)']_vars


(***************************************************************************)
(* Claims about magnet links (SpecMagnet).                                 *)
(***************************************************************************)
\* the value of an xt pair names a BitTorrent info-hash of 40 hexadecimal
\* digits or of 32 characters
WellFormedXt(v) ==
    /\ Len(v) = 3
    /\ v[1] = "urn"
    /\ v[2] = "btih"
    /\ \/ Len(v[3]) = 40 /\ \A i \in 1..40 : IsHexDigit(v[3][i])
       \/ Len(v[3]) = 32

XtOf(pairs) == SelectSeq(pairs, LAMBDA p : p.key = "xt")

KnownKeys == {"xt", "tr", "dn", "x.pe"}

\* C31: a magnet link is accepted only when it has an xt of the form
\* urn:btih:<hash> with a well-formed hash; a link without xt or with
\* another xt is answered with an error, never with a default hash and
\* never with a crash; every `tr` is kept, and pairs with unknown keys do
\* not change the result.
C31_MagnetAccepted ==
    codecOut.tag /= "none" =>
        /\ codecOut.tag /= "panic"
        /\ codecOut.tag = "Ok" =>
              /\ XtOf(codecIn) /= <<>>
              /\ \A i \in DOMAIN XtOf(codecIn) : WellFormedXt(XtOf(codecIn)[i].value)
              /\ codecOut.info.announce =
                    [i \in DOMAIN SelectSeq(codecIn, LAMBDA p : p.key = "tr") |->
                        SelectSeq(codecIn, LAMBDA p : p.key = "tr")[i].value]
        /\ codecOut = TryFromUrl(SelectSeq(codecIn, LAMBDA p : p.key \in KnownKeys))


(***************************************************************************)
(* Claims about the extension-protocol messages (SpecExt).                 *)
(***************************************************************************)
\* C32: every extension handshake and every ut_metadata request, data or
\* reject message x decodes from its own bencoding to x again, and the `m`
\* dictionary written for a handshake is the handshake's own map.
C32_ExtRoundTrips ==
    codecOut.tag = "done" =>
        /\ codecOut.enc.tag = "Ok"
        /\ codecOut.dec = [tag |-> "Ok", v |-> codecIn]
        /\ codecIn.tag = "Handshake" =>
              /\ DOMAIN codecOut.enc.v["m"].v = DOMAIN codecIn.inner
              /\ \A n \in DOMAIN codecIn.inner :
                    codecOut.enc.v["m"].v[n] = BInt(codecIn.inner[n])


(***************************************************************************)
(* Claims about the KRPC messages (SpecKrpc).                              *)
(***************************************************************************)
\* C33: every KRPC message round-trips: decoding the bencoding of a query,
\* a response or an error yields that message, and encoding the decoded
\* message yields the same bencoding again.
C33_KrpcRoundTrips ==
    codecOut.tag = "done" =>
        /\ codecOut.enc.tag = "Ok"
        /\ codecOut.dec = [tag |-> "Ok", v |-> codecIn]
        /\ codecOut.again = codecOut.enc

====
